---- MODULE Spec2Model ----
(***************************************************************************)
(* Model of the work-item-to-Gantt transformation of ado-gantt:            *)
(* GanttDataService (convertToGanttData, convertToGanttItems,              *)
(* createGanttItem, extractGanttLinks, calculateDates, calculateProgress,  *)
(* sortGanttItems), GanttHub.applyGrouping / loadWorkItems and             *)
(* ProgressCalculationService.calculateProgressStatus; and of the          *)
(* services around it: IterationService (resolveIterationMacro),           *)
(* SavedBoardsService with the board handlers of GanttHub, and             *)
(* WorkItemService.queryWorkItems / cancelPendingRequests under            *)
(* overlapping loadWorkItems activations.                                  *)
(*                                                                         *)
(* Dates are JavaScript time values (milliseconds).  Calendar arithmetic   *)
(* (Date.setDate) is modelled with days of exactly MsPerDay milliseconds,  *)
(* i.e. a time zone without daylight-saving transitions.                   *)
(* An optional field v?: T is the empty tuple when undefined and the       *)
(* one-element tuple <<v>> when present.                                   *)
(***************************************************************************)
EXTENDS Integers, Sequences, FiniteSets, TLC

VARIABLES
    workItems,     \* WorkItem[] returned by the query layer (GanttHub state)
    groupBy,       \* GroupByOption in effect (GanttHub state)
    clock,         \* the wall clock read by `new Date()`
    ganttItems,    \* GanttItem[] set by loadWorkItems (GanttHub state)
    prevItems,     \* result of the preceding loadWorkItems on the same input
    loads,         \* number of loadWorkItems runs on the current input (0..2)
    ganttData,     \* outcome of convertToGanttData: [threw, items, links]
    loopPc,        \* position of the stepwise convertToGanttItems loop
    loopItems,     \* the workItems argument of the stepwise call
    loopIdx,       \* index of the work item the loop is at
    loopOut,       \* ganttItems array of the loop
    loopDone,      \* processedIds of the loop
    progressStatus, \* calls of calculateProgressStatus on workItems[1]:
                    \* [calls, status, prev, now]
    iterationService,    \* IterationService fields: [witClient, iterationsCache]
    classificationNodes, \* the iteration nodes the ADO API returns
    macroCall,           \* outcome of the latest resolveIterationMacro call
    localStorage,        \* [boards, currentBoard]: the two localStorage keys
    filters,             \* GanttFilters (GanttHub state)
    zoom,                \* ZoomLevel (GanttHub state)
    currentBoardId,      \* id of the selected board (GanttHub state)
    user,                \* the init effect has set the user (GanttHub state)
    boardsLoaded,        \* the init effect has loaded the saved boards
    boardCall,           \* outcome of the latest SavedBoardsService call
    isLoading,           \* GanttHub state
    abortController,     \* WorkItemService field
    aborted,             \* the AbortControllers that were aborted
    pending              \* the loadWorkItems activations, in order of start

macroVars == <<iterationService, classificationNodes, macroCall>>

boardVars == <<localStorage, filters, zoom, currentBoardId, user,
               boardsLoaded, boardCall>>

queryVars == <<isLoading, abortController, aborted, pending>>

loopVars == <<loopPc, loopItems, loopIdx, loopOut, loopDone>>

conversionVars == <<workItems, ganttItems, prevItems, loads, ganttData,
                    loopVars, progressStatus>>

vars == <<workItems, groupBy, clock, ganttItems, prevItems, loads, ganttData,
          loopPc, loopItems, loopIdx, loopOut, loopDone, progressStatus,
          macroVars, boardVars, queryVars>>

----------------------------------------------------------------------------
(* Bounds *)

MaxItems == 3

MaxClock == 1

MaxDateSteps == 3

MaxWork == 2

MaxIterations == 3

MaxRandom == 2

MaxBoards == 2

MaxPending == 2

----------------------------------------------------------------------------
(* Values *)

Undefined == << >>

Some(v) == <<v>>

IsDefined(o) == o # Undefined

MsPerDay == 1000 * 60 * 60 * 24

DateStep == MsPerDay \div 2

AbsentId == 99999

GroupByOptions == {"none", "assignedTo", "type", "state", "iteration"}

SeqToSet(s) == {s[i] : i \in 1..Len(s)}

\* Math.ceil(a / b) for b > 0
Ceil(a, b) == -((-a) \div b)

\* Math.round((c / total) * 100) for total > 0: floor(x + 0.5)
RoundPercent(c, total) == (200 * c + total) \div (2 * total)

----------------------------------------------------------------------------
(* GanttDataService.calculateDates *)

AddDays(d, n) == d + n * MsPerDay

\* calculateDates with the minimum-span check written `<` instead of `<=`
calculateDatesStrictCheck(workItem, now) ==
    LET startDate ==
            IF IsDefined(workItem.startDate) THEN workItem.startDate[1]
            ELSE IF IsDefined(workItem.targetDate)
                 THEN AddDays(workItem.targetDate[1], -5)
            ELSE IF IsDefined(workItem.createdDate)
                 THEN workItem.createdDate[1] ELSE now
        endDate0 ==
            IF IsDefined(workItem.targetDate) THEN workItem.targetDate[1]
            ELSE AddDays(startDate, 5)
        endDate == IF endDate0 < startDate THEN AddDays(startDate, 1)
                   ELSE endDate0
    IN [startDate |-> startDate, endDate |-> endDate,
        duration |-> Ceil(endDate - startDate, MsPerDay)]

\* calculateDates with Math.floor in place of Math.ceil
calculateDatesFloorDuration(workItem, now) ==
    LET startDate ==
            IF IsDefined(workItem.startDate) THEN workItem.startDate[1]
            ELSE IF IsDefined(workItem.targetDate)
                 THEN AddDays(workItem.targetDate[1], -5)
            ELSE IF IsDefined(workItem.createdDate)
                 THEN workItem.createdDate[1] ELSE now
        endDate0 ==
            IF IsDefined(workItem.targetDate) THEN workItem.targetDate[1]
            ELSE AddDays(startDate, 5)
        endDate == IF endDate0 <= startDate THEN AddDays(startDate, 1)
                   ELSE endDate0
    IN [startDate |-> startDate, endDate |-> endDate,
        duration |-> (endDate - startDate) \div MsPerDay]

calculateDates(workItem, now) ==
    LET both == IsDefined(workItem.startDate) /\ IsDefined(workItem.targetDate)
        startDate ==
            IF both THEN workItem.startDate[1]
            ELSE IF IsDefined(workItem.startDate) THEN workItem.startDate[1]
            ELSE IF IsDefined(workItem.targetDate)
                 THEN AddDays(workItem.targetDate[1], -5)
            ELSE IF IsDefined(workItem.createdDate)
                 THEN workItem.createdDate[1] ELSE now
        endDate0 ==
            IF both THEN workItem.targetDate[1]
            ELSE IF IsDefined(workItem.startDate) THEN AddDays(startDate, 5)
            ELSE IF IsDefined(workItem.targetDate) THEN workItem.targetDate[1]
            ELSE AddDays(startDate, 5)
        endDate == IF endDate0 <= startDate THEN AddDays(startDate, 1)
                   ELSE endDate0
        durationMs == endDate - startDate
    IN [startDate |-> startDate, endDate |-> endDate,
        duration |-> Ceil(durationMs, MsPerDay)]

(* GanttDataService.calculateProgress *)

\* calculateProgress with `return 0` as its last statement
calculateProgressDefaultZero(workItem) ==
    CASE workItem.state \in {"New", "To Do"} -> 0
      [] workItem.state = "Resolved" -> 90
      [] workItem.state \in {"Closed", "Done"} -> 100
      [] workItem.state = "Removed" -> 0
      [] OTHER ->
           IF IsDefined(workItem.completedWork) /\ IsDefined(workItem.remainingWork)
           THEN LET total == workItem.completedWork[1] + workItem.remainingWork[1]
                IN IF total > 0
                   THEN RoundPercent(workItem.completedWork[1], total)
                   ELSE 0
           ELSE 0

calculateProgress(workItem) ==
    CASE workItem.state \in {"New", "To Do"} -> 0
      [] workItem.state = "Resolved" -> 90
      [] workItem.state \in {"Closed", "Done"} -> 100
      [] workItem.state = "Removed" -> 0
      [] OTHER ->
           IF IsDefined(workItem.completedWork) /\ IsDefined(workItem.remainingWork)
           THEN LET total == workItem.completedWork[1] + workItem.remainingWork[1]
                IN IF total > 0
                   THEN RoundPercent(workItem.completedWork[1], total)
                   ELSE 50
           ELSE 50

(* GanttDataService.createGanttItem *)

createGanttItem(workItem, hasChildren, validParentId, now) ==
    LET d == calculateDates(workItem, now)
    IN [id |-> workItem.id,
        text |-> workItem.title,
        start |-> d.startDate,
        end |-> d.endDate,
        duration |-> d.duration,
        progress |-> calculateProgress(workItem),
        parent |-> validParentId,
        type |-> IF hasChildren THEN "summary" ELSE "task",
        workItem |-> workItem]

----------------------------------------------------------------------------
(* GanttDataService.sortGanttItems *)

\* the comparator with the start dates subtracted the other way round
compareGanttItemsDescending(items, a, b) ==
    LET aHasChildren == \E i \in 1..Len(items) : items[i].parent = a.id
        bHasChildren == \E i \in 1..Len(items) : items[i].parent = b.id
    IN IF aHasChildren /\ ~bHasChildren THEN -1
       ELSE IF ~aHasChildren /\ bHasChildren THEN 1
       ELSE b.start - a.start

\* the comparator passed to Array.prototype.sort
compareGanttItems(items, a, b) ==
    LET aHasChildren == \E i \in 1..Len(items) : items[i].parent = a.id
        bHasChildren == \E i \in 1..Len(items) : items[i].parent = b.id
    IN IF aHasChildren /\ ~bHasChildren THEN -1
       ELSE IF ~aHasChildren /\ bHasChildren THEN 1
       ELSE a.start - b.start

\* Array.prototype.sort is stable and the comparator is a consistent weak
\* order, so the element at index i lands behind the elements that compare
\* before it and behind the equal ones that precede it in the array
SortRank(items, i) ==
    1 + Cardinality({j \in 1..Len(items) :
            LET c == compareGanttItems(items, items[j], items[i])
            IN c < 0 \/ (c = 0 /\ j < i)})

sortGanttItems(items) ==
    [p \in 1..Len(items) |->
        items[CHOOSE i \in 1..Len(items) : SortRank(items, i) = p]]

----------------------------------------------------------------------------
(* GanttDataService.convertToGanttItems *)

\* `workItem.parentId && ...`: undefined and 0 are both falsy
ParentIdOf(workItem) ==
    IF IsDefined(workItem.parentId) THEN workItem.parentId[1] ELSE 0

\* validIds (and the key set of itemMap)
validIds(items) == {items[i].id : i \in 1..Len(items)}

\* itemMap.get(id): a later entry with the same id overwrites an earlier one
itemMapGet(items, id) ==
    LET at == {i \in 1..Len(items) : items[i].id = id}
    IN items[CHOOSE i \in at : \A j \in at : j <= i]

\* parentIds: the items that have children in the dataset
parentIds(items) ==
    {ParentIdOf(items[i]) : i \in {j \in 1..Len(items) :
          ParentIdOf(items[j]) # 0 /\ ParentIdOf(items[j]) \in validIds(items)}}
    \cup
    {items[i].id : i \in {j \in 1..Len(items) :
          \E k \in 1..Len(items[j].childrenIds) :
              items[j].childrenIds[k] \in validIds(items)}}

\* validParentId without the check against the dataset (`parentId || 0`)
validParentIdUnchecked(items, workItem) == ParentIdOf(workItem)

validParentId(items, workItem) ==
    IF ParentIdOf(workItem) # 0 /\ ParentIdOf(workItem) \in validIds(items)
    THEN ParentIdOf(workItem) ELSE 0

\* the loop body without the `processedIds.has(workItem.id)` skip
LoopBodyNoSkip(items, workItem, st, now) ==
    LET ganttItem == createGanttItem(workItem,
                         workItem.id \in parentIds(items),
                         validParentId(items, workItem), now)
        out1 == Append(st.out, ganttItem)
        done1 == st.done \cup {workItem.id}
        pid == ParentIdOf(workItem)
    IN IF pid # 0 /\ pid \notin done1 /\ pid \in validIds(items)
       THEN LET parent == itemMapGet(items, pid)
                parentGanttItem == createGanttItem(parent,
                                       parent.id \in parentIds(items),
                                       validParentId(items, parent), now)
            IN [out |-> Append(out1, parentGanttItem),
                done |-> done1 \cup {parent.id}]
       ELSE [out |-> out1, done |-> done1]

\* one iteration of `for (const workItem of workItems)`:
\* st = [out: GanttItem[], done: processedIds]
LoopBody(items, workItem, st, now) ==
    IF workItem.id \in st.done THEN st
    ELSE LET ganttItem == createGanttItem(workItem,
                              workItem.id \in parentIds(items),
                              validParentId(items, workItem), now)
             out1 == Append(st.out, ganttItem)
             done1 == st.done \cup {workItem.id}
             pid == ParentIdOf(workItem)
         IN IF pid # 0 /\ pid \notin done1 /\ pid \in validIds(items)
            THEN LET parent == itemMapGet(items, pid)
                     parentGanttItem == createGanttItem(parent,
                                            parent.id \in parentIds(items),
                                            validParentId(items, parent), now)
                 IN [out |-> Append(out1, parentGanttItem),
                     done |-> done1 \cup {parent.id}]
            ELSE [out |-> out1, done |-> done1]

RECURSIVE ConvertLoop(_, _, _, _)
ConvertLoop(items, n, st, now) ==
    IF n > Len(items) THEN st
    ELSE ConvertLoop(items, n + 1, LoopBody(items, items[n], st, now), now)

convertToGanttItems(items, now) ==
    sortGanttItems(ConvertLoop(items, 1, [out |-> << >>, done |-> {}], now).out)

----------------------------------------------------------------------------
(* GanttDataService.extractGanttLinks *)

\* st = [links: GanttLink[], linkId: the counter declared by `let linkId = 1`]

\* links for one work item without the `itemIds.has(predecessorId)` check
RECURSIVE LinksOfUnchecked(_, _, _, _, _)
LinksOfUnchecked(itemIds, workItem, preds, k, st) ==
    IF k > Len(preds) THEN st
    ELSE LinksOfUnchecked(itemIds, workItem, preds, k + 1,
             IF workItem.id \in itemIds
             THEN [links |-> Append(st.links, [id |-> st.linkId,
                                               source |-> preds[k],
                                               target |-> workItem.id,
                                               type |-> "e2s"]),
                   linkId |-> st.linkId + 1]
             ELSE st)

\* links for one work item that also materialise its successors
RECURSIVE LinksOfWithSuccessors(_, _, _, _, _)
LinksOfWithSuccessors(itemIds, workItem, preds, k, st) ==
    IF k > Len(preds) + Len(workItem.successors[1]) THEN st
    ELSE LET src == IF k <= Len(preds) THEN preds[k] ELSE workItem.id
             tgt == IF k <= Len(preds) THEN workItem.id
                    ELSE workItem.successors[1][k - Len(preds)]
         IN LinksOfWithSuccessors(itemIds, workItem, preds, k + 1,
                IF src \in itemIds /\ tgt \in itemIds
                THEN [links |-> Append(st.links, [id |-> st.linkId,
                                                  source |-> src,
                                                  target |-> tgt,
                                                  type |-> "e2s"]),
                      linkId |-> st.linkId + 1]
                ELSE st)

\* links for one work item with `id: linkId` in place of `id: linkId++`
RECURSIVE LinksOfNoIncrement(_, _, _, _, _)
LinksOfNoIncrement(itemIds, workItem, preds, k, st) ==
    IF k > Len(preds) THEN st
    ELSE LinksOfNoIncrement(itemIds, workItem, preds, k + 1,
             IF preds[k] \in itemIds /\ workItem.id \in itemIds
             THEN [links |-> Append(st.links, [id |-> st.linkId,
                                               source |-> preds[k],
                                               target |-> workItem.id,
                                               type |-> "e2s"]),
                   linkId |-> st.linkId]
             ELSE st)

\* links for one work item; the caller has checked that predecessors is iterable
RECURSIVE LinksOf(_, _, _, _, _)
LinksOf(itemIds, workItem, preds, k, st) ==
    IF k > Len(preds) THEN st
    ELSE LinksOf(itemIds, workItem, preds, k + 1,
             IF preds[k] \in itemIds /\ workItem.id \in itemIds
             THEN [links |-> Append(st.links, [id |-> st.linkId,
                                               source |-> preds[k],
                                               target |-> workItem.id,
                                               type |-> "e2s"]),
                   linkId |-> st.linkId + 1]
             ELSE st)

\* result: [threw, links]; iterating an undefined predecessors is a TypeError
RECURSIVE LinkLoop(_, _, _, _)
LinkLoop(items, itemIds, n, st) ==
    IF n > Len(items) THEN [threw |-> FALSE, links |-> st.links]
    ELSE IF ~IsDefined(items[n].predecessors)
         THEN [threw |-> TRUE, links |-> << >>]
         ELSE LinkLoop(items, itemIds, n + 1,
                  LinksOf(itemIds, items[n], items[n].predecessors[1], 1, st))

extractGanttLinks(items, rows) ==
    LinkLoop(items, {rows[i].id : i \in 1..Len(rows)}, 1,
             [links |-> << >>, linkId |-> 1])

(* GanttDataService.convertToGanttData *)

convertToGanttData(items, now) ==
    LET rows == convertToGanttItems(items, now)
        res == extractGanttLinks(items, rows)
    IN IF res.threw
       THEN [threw |-> TRUE, items |-> << >>, links |-> << >>]
       ELSE [threw |-> FALSE, items |-> rows, links |-> res.links]

----------------------------------------------------------------------------
(* ProgressCalculationService *)

getWorkItemDates(workItem, now) ==
    LET both == IsDefined(workItem.startDate) /\ IsDefined(workItem.targetDate)
        startDate ==
            IF both THEN workItem.startDate[1]
            ELSE IF IsDefined(workItem.startDate) THEN workItem.startDate[1]
            ELSE IF IsDefined(workItem.targetDate)
                 THEN AddDays(workItem.targetDate[1], -5)
            ELSE IF IsDefined(workItem.createdDate)
                 THEN workItem.createdDate[1] ELSE now
        endDate0 ==
            IF both THEN workItem.targetDate[1]
            ELSE IF IsDefined(workItem.startDate) THEN AddDays(startDate, 5)
            ELSE IF IsDefined(workItem.targetDate) THEN workItem.targetDate[1]
            ELSE AddDays(startDate, 5)
        endDate == IF endDate0 <= startDate THEN AddDays(startDate, 1)
                   ELSE endDate0
        durationMs == endDate - startDate
    IN [startDate |-> startDate, endDate |-> endDate,
        duration |-> Ceil(durationMs, MsPerDay)]

\* calculateProgressStatus; currentDate is the value of the `new Date()` of
\* its first statement.  Date.prototype.setDate truncates its argument to an
\* integer (ToIntegerOrInfinity), so the half day of an odd duration is lost.
calculateProgressStatus(workItem, currentDate) ==
    IF workItem.state = "Closed" \/ workItem.state = "Resolved" THEN "Done"
    ELSE IF workItem.state = "New" THEN "Not Started"
    ELSE LET d == getWorkItemDates(workItem, currentDate)
             midpoint == AddDays(d.startDate, d.duration \div 2)
         IN IF currentDate >= d.endDate THEN "Off Track"
            ELSE IF currentDate >= midpoint /\ currentDate < d.endDate
                 THEN "At Risk"
            ELSE "On Track"

----------------------------------------------------------------------------
(* IterationService *)

\* A string is a sequence of tokens; the marker word is one token, in one of
\* three spellings that differ in case only
MarkerSpellings == {"@CurrentIteration", "@currentiteration", "@CURRENTITERATION"}

\* the effect of the regular expression flag i on a token
ToLower(tok) == IF tok \in MarkerSpellings THEN "@currentiteration" ELSE tok

DigitValue(tok) == CASE tok = "0" -> 0 [] tok = "1" -> 1 [] tok = "2" -> 2

DigitTokens == {"0", "1", "2"}

\* \s* from position i: the position behind the spaces
SkipSpaces(str, i) ==
    CHOOSE j \in i..(Len(str) + 1) :
        /\ \A k \in i..(j - 1) : str[k] = " "
        /\ j = Len(str) + 1 \/ str[j] # " "

\* \d* from position i: the position behind the digits
SkipDigits(str, i) ==
    CHOOSE j \in i..(Len(str) + 1) :
        /\ \A k \in i..(j - 1) : str[k] \in DigitTokens
        /\ j = Len(str) + 1 \/ str[j] \notin DigitTokens

\* macro.match(/@CurrentIteration(?:\s*([+-])\s*(\d+))?/i): Undefined (null)
\* when the marker occurs nowhere in the string, else the two groups of the
\* leftmost match; the optional part matches only as a whole
MacroMatch(macro) ==
    LET at == {i \in 1..Len(macro) : ToLower(macro[i]) = "@currentiteration"}
    IN IF at = {} THEN Undefined
       ELSE LET p == CHOOSE i \in at : \A j \in at : i <= j
                q == SkipSpaces(macro, p + 1)
                hasSign == q <= Len(macro) /\ macro[q] \in {"+", "-"}
                r == IF hasSign THEN SkipSpaces(macro, q + 1) ELSE q
                e == IF hasSign THEN SkipDigits(macro, r) ELSE r
            IN IF hasSign /\ e > r
               THEN Some([sign |-> Some(macro[q]),
                          digits |-> Some(SubSeq(macro, r, e - 1))])
               ELSE Some([sign |-> Undefined, digits |-> Undefined])

RECURSIVE DecimalValue(_)
DecimalValue(digits) ==
    IF digits = << >> THEN 0
    ELSE 10 * DecimalValue(SubSeq(digits, 1, Len(digits) - 1))
         + DigitValue(digits[Len(digits)])

\* parseInt(match[1] + match[2], 10)
ParseInt(sign, digits) ==
    IF sign = "-" THEN -DecimalValue(digits) ELSE DecimalValue(digits)

\* the comparator of the sort in parseIterations; names compare as their
\* numbers
compareIterations(a, b) ==
    IF IsDefined(a.startDate) /\ IsDefined(b.startDate)
    THEN a.startDate[1] - b.startDate[1]
    ELSE a.name - b.name

IterationRank(its, i) ==
    1 + Cardinality({j \in 1..Len(its) :
            LET c == compareIterations(its[j], its[i])
            IN c < 0 \/ (c = 0 /\ j < i)})

\* parseIterations: isCurrent is set from the clock at the time of the fetch
parseIterations(nodes, now) ==
    LET iterations ==
            [i \in 1..Len(nodes) |->
                [name |-> nodes[i].name,
                 path |-> nodes[i].path,
                 startDate |-> nodes[i].startDate,
                 finishDate |-> nodes[i].finishDate,
                 isCurrent |->
                     IF IsDefined(nodes[i].startDate) /\ IsDefined(nodes[i].finishDate)
                     THEN now >= nodes[i].startDate[1] /\ now <= nodes[i].finishDate[1]
                     ELSE FALSE]]
    IN [p \in 1..Len(iterations) |->
           iterations[CHOOSE i \in 1..Len(iterations) :
                         IterationRank(iterations, i) = p]]

\* getTeamIterations; ok: getClassificationNodes does not reject.
\* result: [threw, iterations, service]
getTeamIterations(service, nodes, ok, now) ==
    IF IsDefined(service.iterationsCache)
    THEN [threw |-> FALSE, iterations |-> service.iterationsCache[1],
          service |-> service]
    ELSE IF ~service.witClient
    THEN [threw |-> TRUE, iterations |-> << >>, service |-> service]
    ELSE IF ok
    THEN LET iterations == parseIterations(nodes, now)
         IN [threw |-> FALSE, iterations |-> iterations,
             service |-> [service EXCEPT !.iterationsCache = Some(iterations)]]
    ELSE [threw |-> FALSE, iterations |-> << >>, service |-> service]

\* Array.prototype.findIndex over the periods that are marked current
FindCurrentIndex(iterations) ==
    LET at == {i \in 1..Len(iterations) : iterations[i].isCurrent}
    IN IF at = {} THEN -1 ELSE (CHOOSE i \in at : \A j \in at : i <= j) - 1

\* Array.prototype.findIndex over the periods whose dates contain now
FindActiveIndex(iterations, now) ==
    LET at == {i \in 1..Len(iterations) :
                  /\ IsDefined(iterations[i].startDate)
                  /\ IsDefined(iterations[i].finishDate)
                  /\ now >= iterations[i].startDate[1]
                  /\ now <= iterations[i].finishDate[1]}
    IN IF at = {} THEN -1 ELSE (CHOOSE i \in at : \A j \in at : i <= j) - 1

\* resolveIterationMacro with `return null` for a string that is no macro
resolveIterationMacroNullLiteral(macro, service, nodes, ok, now) ==
    LET m == MacroMatch(macro)
    IN IF m = Undefined
       THEN [threw |-> FALSE, value |-> Undefined, iterations |-> Undefined,
             service |-> service]
       ELSE LET offset == IF IsDefined(m[1].sign) /\ IsDefined(m[1].digits)
                          THEN ParseInt(m[1].sign[1], m[1].digits[1]) ELSE 0
                g == getTeamIterations(service, nodes, ok, now)
                iterations == g.iterations
                currentIndex == FindCurrentIndex(iterations)
                activeIndex == FindActiveIndex(iterations, now)
                baseIndex == IF currentIndex = -1 THEN activeIndex ELSE currentIndex
                targetIndex == baseIndex + offset
            IN IF g.threw
               THEN [threw |-> TRUE, value |-> Undefined,
                     iterations |-> Undefined, service |-> service]
               ELSE [threw |-> FALSE,
                     value |->
                        IF Len(iterations) = 0 THEN Undefined
                        ELSE IF baseIndex = -1 THEN Undefined
                        ELSE IF targetIndex < 0 \/ targetIndex >= Len(iterations)
                             THEN Undefined
                        ELSE Some(iterations[targetIndex + 1].path),
                     iterations |-> Some(iterations),
                     service |-> g.service]

\* resolveIterationMacro that takes the first period as the current one when
\* none is marked
resolveIterationMacroFirstAsCurrent(macro, service, nodes, ok, now) ==
    LET m == MacroMatch(macro)
    IN IF m = Undefined
       THEN [threw |-> FALSE, value |-> Some(macro), iterations |-> Undefined,
             service |-> service]
       ELSE LET offset == IF IsDefined(m[1].sign) /\ IsDefined(m[1].digits)
                          THEN ParseInt(m[1].sign[1], m[1].digits[1]) ELSE 0
                g == getTeamIterations(service, nodes, ok, now)
                iterations == g.iterations
                currentIndex == FindCurrentIndex(iterations)
                baseIndex == IF currentIndex = -1 THEN 0 ELSE currentIndex
                targetIndex == baseIndex + offset
            IN IF g.threw
               THEN [threw |-> TRUE, value |-> Undefined,
                     iterations |-> Undefined, service |-> service]
               ELSE [threw |-> FALSE,
                     value |->
                        IF Len(iterations) = 0 THEN Undefined
                        ELSE IF targetIndex < 0 \/ targetIndex >= Len(iterations)
                             THEN Undefined
                        ELSE Some(iterations[targetIndex + 1].path),
                     iterations |-> Some(iterations),
                     service |-> g.service]

\* resolveIterationMacro with the upper bound check `targetIndex > length`
resolveIterationMacroLooseBound(macro, service, nodes, ok, now) ==
    LET m == MacroMatch(macro)
    IN IF m = Undefined
       THEN [threw |-> FALSE, value |-> Some(macro), iterations |-> Undefined,
             service |-> service]
       ELSE LET offset == IF IsDefined(m[1].sign) /\ IsDefined(m[1].digits)
                          THEN ParseInt(m[1].sign[1], m[1].digits[1]) ELSE 0
                g == getTeamIterations(service, nodes, ok, now)
                iterations == g.iterations
                currentIndex == FindCurrentIndex(iterations)
                activeIndex == FindActiveIndex(iterations, now)
                baseIndex == IF currentIndex = -1 THEN activeIndex ELSE currentIndex
                targetIndex == baseIndex + offset
            IN IF g.threw
               THEN [threw |-> TRUE, value |-> Undefined,
                     iterations |-> Undefined, service |-> service]
               ELSE [threw |-> FALSE,
                     value |->
                        IF Len(iterations) = 0 THEN Undefined
                        ELSE IF baseIndex = -1 THEN Undefined
                        ELSE IF targetIndex < 0 \/ targetIndex > Len(iterations)
                             THEN Undefined
                        ELSE IF targetIndex = Len(iterations)
                             THEN Some(<< >>)
                        ELSE Some(iterations[targetIndex + 1].path),
                     iterations |-> Some(iterations),
                     service |-> g.service]

\* resolveIterationMacro that lets the rejection of getClassificationNodes
\* through (getTeamIterations without its try / catch)
resolveIterationMacroNoCatch(macro, service, nodes, ok, now) ==
    LET m == MacroMatch(macro)
    IN IF m = Undefined
       THEN [threw |-> FALSE, value |-> Some(macro), iterations |-> Undefined,
             service |-> service]
       ELSE LET offset == IF IsDefined(m[1].sign) /\ IsDefined(m[1].digits)
                          THEN ParseInt(m[1].sign[1], m[1].digits[1]) ELSE 0
                g == getTeamIterations(service, nodes, ok, now)
                iterations == g.iterations
                currentIndex == FindCurrentIndex(iterations)
                activeIndex == FindActiveIndex(iterations, now)
                baseIndex == IF currentIndex = -1 THEN activeIndex ELSE currentIndex
                targetIndex == baseIndex + offset
            IN IF g.threw \/ (~IsDefined(service.iterationsCache) /\ ~ok)
               THEN [threw |-> TRUE, value |-> Undefined,
                     iterations |-> Undefined, service |-> service]
               ELSE [threw |-> FALSE,
                     value |->
                        IF Len(iterations) = 0 THEN Undefined
                        ELSE IF baseIndex = -1 THEN Undefined
                        ELSE IF targetIndex < 0 \/ targetIndex >= Len(iterations)
                             THEN Undefined
                        ELSE Some(iterations[targetIndex + 1].path),
                     iterations |-> Some(iterations),
                     service |-> g.service]

\* result: [threw, value (Undefined is null), iterations (the calendar the
\* call obtained, if it got that far), service]
resolveIterationMacro(macro, service, nodes, ok, now) ==
    LET m == MacroMatch(macro)
    IN IF m = Undefined
       THEN [threw |-> FALSE, value |-> Some(macro), iterations |-> Undefined,
             service |-> service]
       ELSE LET offset == IF IsDefined(m[1].sign) /\ IsDefined(m[1].digits)
                          THEN ParseInt(m[1].sign[1], m[1].digits[1]) ELSE 0
                g == getTeamIterations(service, nodes, ok, now)
                iterations == g.iterations
                currentIndex == FindCurrentIndex(iterations)
                activeIndex == FindActiveIndex(iterations, now)
                baseIndex == IF currentIndex = -1 THEN activeIndex ELSE currentIndex
                targetIndex == baseIndex + offset
            IN IF g.threw
               THEN [threw |-> TRUE, value |-> Undefined,
                     iterations |-> Undefined, service |-> service]
               ELSE [threw |-> FALSE,
                     value |->
                        IF Len(iterations) = 0 THEN Undefined
                        ELSE IF baseIndex = -1 THEN Undefined
                        ELSE IF targetIndex < 0 \/ targetIndex >= Len(iterations)
                             THEN Undefined
                        ELSE Some(iterations[targetIndex + 1].path),
                     iterations |-> Some(iterations),
                     service |-> g.service]

----------------------------------------------------------------------------
(* SavedBoardsService *)

\* A stored board is [id, name, filters, zoom]; the other fields
\* (description, column widths, time stamps) are not modelled.  An id is the
\* pair of the two parts that generateId puts into it.
generateId(now, random) == <<now, random>>

\* boards.find(b => b.id === id) || null
getBoard(boards, id) ==
    LET at == {i \in 1..Len(boards) : boards[i].id = id}
    IN IF at = {} THEN Undefined
       ELSE Some(boards[CHOOSE i \in at : \A j \in at : i <= j])

\* saveBoard that appends a board whose id is not in the store
saveBoardUpsert(boards, board, now, random) ==
    IF IsDefined(board.id)
    THEN LET at == {i \in 1..Len(boards) : boards[i].id = board.id[1]}
             savedBoard == [id |-> board.id[1], name |-> board.name,
                            filters |-> board.filters, zoom |-> board.zoom]
         IN IF at # {}
            THEN [threw |-> FALSE,
                  boards |-> [boards EXCEPT
                                 ![CHOOSE i \in at : \A j \in at : i <= j] =
                                     savedBoard],
                  board |-> Some(savedBoard)]
            ELSE [threw |-> FALSE, boards |-> Append(boards, savedBoard),
                  board |-> Some(savedBoard)]
    ELSE LET savedBoard == [id |-> generateId(now, random), name |-> board.name,
                            filters |-> board.filters, zoom |-> board.zoom]
         IN [threw |-> FALSE, boards |-> Append(boards, savedBoard),
             board |-> Some(savedBoard)]

\* saveBoard(board) with board = [id (optional), name, filters, zoom];
\* result: [threw, boards (the store afterwards), board (the return value)]
saveBoard(boards, board, now, random) ==
    IF IsDefined(board.id)
    THEN LET at == {i \in 1..Len(boards) : boards[i].id = board.id[1]}
             savedBoard == [id |-> board.id[1], name |-> board.name,
                            filters |-> board.filters, zoom |-> board.zoom]
         IN IF at # {}
            THEN [threw |-> FALSE,
                  boards |-> [boards EXCEPT
                                 ![CHOOSE i \in at : \A j \in at : i <= j] =
                                     savedBoard],
                  board |-> Some(savedBoard)]
            ELSE [threw |-> TRUE, boards |-> boards, board |-> Undefined]
    ELSE LET savedBoard == [id |-> generateId(now, random), name |-> board.name,
                            filters |-> board.filters, zoom |-> board.zoom]
         IN [threw |-> FALSE, boards |-> Append(boards, savedBoard),
             board |-> Some(savedBoard)]

\* boards.filter(b => b.id !== id)
deleteBoard(boards, id) ==
    LET keep == {i \in 1..Len(boards) : boards[i].id # id}
        nth(p) == CHOOSE i \in keep :
                      Cardinality({j \in keep : j < i}) = p - 1
    IN [p \in 1..Cardinality(keep) |-> boards[nth(p)]]

duplicateBoard(boards, id, newName, now, random) ==
    LET board == getBoard(boards, id)
    IN IF ~IsDefined(board)
       THEN [threw |-> FALSE, boards |-> boards, board |-> Undefined]
       ELSE saveBoard(boards,
                      [id |-> Undefined, name |-> newName,
                       filters |-> board[1].filters, zoom |-> board[1].zoom],
                      now, random)

renameBoard(boards, id, newName, now, random) ==
    LET board == getBoard(boards, id)
    IN IF ~IsDefined(board)
       THEN [threw |-> FALSE, boards |-> boards, board |-> Undefined]
       ELSE saveBoard(boards,
                      [id |-> Some(board[1].id), name |-> newName,
                       filters |-> board[1].filters, zoom |-> board[1].zoom],
                      now, random)

\* the filters of the default board have no groupBy key
createDefaultBoard(boards, now, random) ==
    saveBoard(boards,
              [id |-> Undefined, name |-> <<"Default View">>,
               filters |-> [states |-> {"New", "Active", "Resolved"},
                            groupBy |-> Undefined],
               zoom |-> "week"],
              now, random)

\* JSON text is the sequence of its key / value pairs; JSON.stringify leaves
\* out a key whose value is undefined
StringifyFilters(f) ==
    << <<"states", f.states>> >>
    \o (IF IsDefined(f.groupBy) THEN << <<"groupBy", f.groupBy[1]>> >> ELSE << >>)

StringifyBoard(board) ==
    << <<"id", board.id>>, <<"name", board.name>>,
       <<"filters", StringifyFilters(board.filters)>>, <<"zoom", board.zoom>> >>

\* the value of a key of a parsed object, undefined when the key is missing
JsonGet(json, key) ==
    LET at == {i \in 1..Len(json) : json[i][1] = key}
    IN IF at = {} THEN Undefined
       ELSE Some(json[CHOOSE i \in at : \A j \in at : j <= i][2])

ParseFilters(json) ==
    [states |-> JsonGet(json, "states")[1], groupBy |-> JsonGet(json, "groupBy")]

ParseBoard(json) ==
    [id |-> JsonGet(json, "id")[1], name |-> JsonGet(json, "name")[1],
     filters |-> ParseFilters(JsonGet(json, "filters")[1]),
     zoom |-> JsonGet(json, "zoom")[1]]

\* the JSON text, or Undefined (null) for an unknown id
exportBoard(boards, id) ==
    LET board == getBoard(boards, id)
    IN IF ~IsDefined(board) THEN Undefined ELSE Some(StringifyBoard(board[1]))

\* json: Undefined is the null that exportBoard returned; reading board.name
\* of the parsed null throws inside the try block
importBoard(boards, json, now, random) ==
    IF ~IsDefined(json)
    THEN [threw |-> FALSE, boards |-> boards, board |-> Undefined]
    ELSE LET board == ParseBoard(json[1])
         IN saveBoard(boards,
                      [id |-> Undefined,
                       name |-> Append(board.name, "(Imported)"),
                       filters |-> board.filters, zoom |-> board.zoom],
                      now, random)

----------------------------------------------------------------------------
(* GanttHub.applyGrouping *)

groupKey(item, groupByOption) ==
    CASE groupByOption = "assignedTo" ->
           IF IsDefined(item.assignedTo) /\ item.assignedTo[1] # ""
           THEN item.assignedTo[1] ELSE "Unassigned"
      [] groupByOption = "type" -> item.type
      [] groupByOption = "state" -> item.state
      [] groupByOption = "iteration" ->
           IF item.iterationPath # "" THEN item.iterationPath ELSE "No Iteration"
      [] OTHER -> "All"

\* keys of the `groups` Map in insertion order
RECURSIVE GroupKeys(_, _, _, _)
GroupKeys(items, groupByOption, n, keys) ==
    IF n > Len(items) THEN keys
    ELSE LET k == groupKey(items[n], groupByOption)
         IN GroupKeys(items, groupByOption, n + 1,
                      IF k \in SeqToSet(keys) THEN keys ELSE Append(keys, k))

\* groups.get(key): the items of one group, in input order
GroupItems(items, groupByOption, key) ==
    SelectSeq(items, LAMBDA it : groupKey(it, groupByOption) = key)

\* the virtual parent work item of a group; it has no parentId, no dates,
\* no work values, no assignedTo and no predecessors / successors
groupParent(groupId, groupName, groupItems, now) ==
    [id |-> groupId,
     title |-> groupName,
     type |-> "Feature",
     state |-> "Active",
     assignedTo |-> Undefined,
     iterationPath |-> "",
     startDate |-> Undefined,
     targetDate |-> Undefined,
     createdDate |-> Some(now),
     parentId |-> Undefined,
     childrenIds |-> [i \in 1..Len(groupItems) |-> groupItems[i].id],
     predecessors |-> Undefined,
     successors |-> Undefined,
     remainingWork |-> Undefined,
     completedWork |-> Undefined]

RECURSIVE GroupedResult(_, _, _, _, _, _)
GroupedResult(items, groupByOption, keys, n, result, now) ==
    IF n > Len(keys) THEN result
    ELSE LET groupId == -n
             groupItems == GroupItems(items, groupByOption, keys[n])
             members == [i \in 1..Len(groupItems) |->
                            [groupItems[i] EXCEPT !.parentId = Some(groupId)]]
         IN GroupedResult(items, groupByOption, keys, n + 1,
                result \o <<groupParent(groupId, keys[n], groupItems, now)>>
                       \o members, now)

applyGrouping(items, groupByOption, now) ==
    IF groupByOption = "none" THEN items
    ELSE GroupedResult(items, groupByOption,
                       GroupKeys(items, groupByOption, 1, << >>), 1, << >>, now)

----------------------------------------------------------------------------
(* Input work item lists, as WorkItemService.parseWorkItem produces them:  *)
(* ids are distinct and positive, createdDate, childrenIds, predecessors   *)
(* and successors are always present.                                      *)

WorkItem(id, parentId, childrenIds, predecessors, successors, p) ==
    [id |-> id,
     title |-> "Item",
     type |-> p.type,
     state |-> p.state,
     assignedTo |-> p.assignedTo,
     iterationPath |-> p.iterationPath,
     startDate |-> p.startDate,
     targetDate |-> p.targetDate,
     createdDate |-> Some(p.createdDate),
     parentId |-> parentId,
     childrenIds |-> childrenIds,
     predecessors |-> Some(predecessors),
     successors |-> Some(successors),
     remainingWork |-> p.remainingWork,
     completedWork |-> p.completedWork]

\* scalar fields of the records of the hierarchy and dependency lists
Profile(k) ==
    IF k = 1
    THEN [type |-> "Task", state |-> "Active", assignedTo |-> Some("Ann"),
          iterationPath |-> "Sprint 1",
          startDate |-> Some(2 * MsPerDay), targetDate |-> Some(4 * MsPerDay),
          createdDate |-> 0,
          remainingWork |-> Some(3), completedWork |-> Some(1)]
    ELSE [type |-> "Bug", state |-> "New", assignedTo |-> Undefined,
          iterationPath |-> "",
          startDate |-> Undefined, targetDate |-> Undefined,
          createdDate |-> MsPerDay,
          remainingWork |-> Undefined, completedWork |-> Undefined]

\* ascending sequence of the elements of a finite set of integers
RECURSIVE SetToSeq(_)
SetToSeq(S) ==
    IF S = {} THEN << >>
    ELSE LET m == CHOOSE x \in S : \A y \in S : x <= y
         IN <<m>> \o SetToSeq(S \ {m})

\* parent links: none, a record outside the list, or a neighbour in the list
\* (chains in either direction, two-record cycles, siblings)
ParentChoices(n, i) ==
    {Undefined, Some(AbsentId)} \cup {Some(j) : j \in {i - 1, i + 1} \cap (1..n)}

\* which profile the i-th record of a list has: all records alike, or the
\* two profiles alternating
ProfileAt(pat, i) ==
    IF pat = 1 THEN 1
    ELSE IF pat = 2 THEN (IF i % 2 = 1 THEN 1 ELSE 2)
    ELSE (IF i % 2 = 1 THEN 2 ELSE 1)

\* lists that vary the hierarchy; childrenIds mirrors parentId as in ADO
HierLists ==
    UNION {
      {[i \in 1..n |->
          WorkItem(i, par[i],
                   SetToSeq({j \in 1..n : par[j] = Some(i)}),
                   << >>, << >>, Profile(ProfileAt(pat, i)))] :
         par \in {f \in [1..n -> {Undefined} \cup {Some(j) : j \in (1..n) \cup {AbsentId}}] :
                     \A i \in 1..n : f[i] \in ParentChoices(n, i)},
         pat \in 1..3} :
      n \in 0..MaxItems}

\* predecessor lists: empty, dangling, one or two records of the list
PredChoices(n, i) ==
    LET others == SetToSeq((1..n) \ {i})
    IN {<< >>, <<AbsentId>>}
       \cup {<<others[k]>> : k \in {1} \cap (1..Len(others))}
       \cup {<<others[k], AbsentId>> : k \in {1} \cap (1..Len(others))}
       \cup {<<others[1], others[2]>> : k \in {2} \cap (1..Len(others))}

\* lists that vary the dependencies; successors either mirrors predecessors
\* (as in ADO) or is empty
LinkLists ==
    UNION {
      {[i \in 1..n |->
          WorkItem(i, Undefined, << >>, pre[i],
                   IF mirror THEN SetToSeq({j \in 1..n : i \in SeqToSet(pre[j])})
                   ELSE << >>,
                   Profile(1))] :
         pre \in {f \in [1..n -> UNION {PredChoices(n, i) : i \in 1..n}] :
                     \A i \in 1..n : f[i] \in PredChoices(n, i)},
         mirror \in BOOLEAN} :
      n \in 1..MaxItems}

Dates == {k * DateStep : k \in 0..MaxDateSteps}

\* single records that vary the date fields
DateLists ==
    {<<WorkItem(1, Undefined, << >>, << >>, << >>,
          [Profile(1) EXCEPT !.startDate = s, !.targetDate = t, !.createdDate = c])>> :
       s \in {Undefined} \cup {Some(d) : d \in Dates},
       t \in {Undefined} \cup {Some(d) : d \in Dates},
       c \in Dates}

WorkItemStates ==
    {"New", "Active", "Resolved", "Closed", "Removed", "To Do", "Doing", "Done"}

WorkValues == {Undefined} \cup {Some(w) : w \in (-MaxWork)..MaxWork}

\* single records that vary the state and the work tracking values;
\* "In Review" stands for a state outside the known vocabularies
ProgressLists ==
    {<<WorkItem(1, Undefined, << >>, << >>, << >>,
          [Profile(1) EXCEPT !.state = st, !.completedWork = cw,
                             !.remainingWork = rw])>> :
       st \in WorkItemStates \cup {"In Review"},
       cw \in WorkValues, rw \in WorkValues}

InputLists == HierLists \cup LinkLists \cup DateLists \cup ProgressLists

\* single records that vary the state and the date fields
HealthLists ==
    {<<WorkItem(1, Undefined, << >>, << >>, << >>,
          [Profile(1) EXCEPT !.state = st, !.startDate = s, !.targetDate = t,
                             !.createdDate = c])>> :
       st \in WorkItemStates \cup {"In Review"},
       s \in {Undefined} \cup {Some(d) : d \in Dates},
       t \in {Undefined} \cup {Some(d) : d \in Dates},
       c \in Dates}

----------------------------------------------------------------------------
(* State machine *)

NoData == [called |-> FALSE, threw |-> FALSE, items |-> << >>, links |-> << >>]

NoStatus == [calls |-> 0, status |-> "", prev |-> "", now |-> 0]

\* resolveIterationMacro was not called yet
NoMacroCall ==
    [called |-> FALSE, macro |-> << >>, now |-> 0, initialized |-> FALSE,
     iterations |-> Undefined, threw |-> FALSE, value |-> Undefined]

\* a new IterationService that no one uses
IdleMacro ==
    /\ iterationService = [witClient |-> FALSE, iterationsCache |-> Undefined]
    /\ classificationNodes = << >>
    /\ macroCall = NoMacroCall

\* the useState initial values of GanttHub
DefaultFilters == [states |-> {"New", "Active", "Resolved"}, groupBy |-> Some("none")]

\* no SavedBoardsService method was called yet
NoBoardCall ==
    [op |-> "", id |-> << >>, threw |-> FALSE, result |-> Undefined,
     before |-> << >>, after |-> << >>]

\* empty localStorage and the initial GanttHub board state
IdleBoards ==
    /\ localStorage = [boards |-> << >>, currentBoard |-> Undefined]
    /\ filters = DefaultFilters
    /\ zoom = "week"
    /\ currentBoardId = Undefined
    /\ user = FALSE
    /\ boardsLoaded = FALSE
    /\ boardCall = NoBoardCall

\* a WorkItemService without requests
IdleQuery ==
    /\ isLoading = FALSE
    /\ abortController = Undefined
    /\ aborted = {}
    /\ pending = << >>

\* every hierarchy is converted under every groupBy key, the other lists
\* ungrouped
Init ==
    /\ \/ workItems \in HierLists /\ groupBy \in GroupByOptions
       \/ workItems \in InputLists /\ groupBy = "none"
    /\ clock = 0
    /\ ganttItems = << >>
    /\ prevItems = << >>
    /\ loads = 0
    /\ ganttData = NoData
    /\ loopPc = "idle"
    /\ loopItems = << >>
    /\ loopIdx = 0
    /\ loopOut = << >>
    /\ loopDone = {}
    /\ progressStatus = NoStatus
    /\ IdleMacro /\ IdleBoards /\ IdleQuery

\* the clock advances between any two steps
Tick ==
    /\ clock < MaxClock
    /\ clock' = clock + 1
    /\ UNCHANGED <<macroVars, boardVars, queryVars,
                   progressStatus, workItems, groupBy, ganttItems, prevItems, loads, ganttData,
                   loopPc, loopItems, loopIdx, loopOut, loopDone>>

\* the list handed to the conversion
processedItems == applyGrouping(workItems, groupBy, clock)

\* GanttHub.loadWorkItems after the query returned workItems:
\* applyGrouping, convertToGanttItems, setGanttItems
LoadWorkItems ==
    /\ ganttItems' = convertToGanttItems(processedItems, clock)
    /\ prevItems' = IF loads = 0 THEN << >> ELSE ganttItems
    /\ loads' = IF loads < 2 THEN loads + 1 ELSE 2
    /\ UNCHANGED <<macroVars, boardVars, queryVars,
                   progressStatus, workItems, groupBy, clock, ganttData,
                   loopPc, loopItems, loopIdx, loopOut, loopDone>>

\* GanttDataService.convertToGanttData on the grouped list
ConvertToGanttData ==
    /\ ganttData' = [called |-> TRUE] @@ convertToGanttData(processedItems, clock)
    /\ UNCHANGED <<macroVars, boardVars, queryVars,
                   progressStatus, workItems, groupBy, clock, ganttItems, prevItems, loads,
                   loopPc, loopItems, loopIdx, loopOut, loopDone>>

Next ==
    \/ Tick
    \/ LoadWorkItems
    \/ ConvertToGanttData

Spec == Init /\ [][Next]_vars

----------------------------------------------------------------------------
(* The loop of convertToGanttItems, one iteration per step *)

InitLoop ==
    /\ workItems \in HierLists
    /\ groupBy \in GroupByOptions
    /\ clock = 0
    /\ ganttItems = << >>
    /\ prevItems = << >>
    /\ loads = 0
    /\ ganttData = NoData
    /\ loopPc = "idle"
    /\ loopItems = << >>
    /\ loopIdx = 0
    /\ loopOut = << >>
    /\ loopDone = {}
    /\ progressStatus = NoStatus
    /\ IdleMacro /\ IdleBoards /\ IdleQuery

\* convertToGanttItems is called with the grouped list; the maps and sets
\* are built and the loop is entered
LoopStart ==
    /\ loopPc = "idle"
    /\ loopPc' = "loop"
    /\ loopItems' = processedItems
    /\ loopIdx' = 1
    /\ loopOut' = << >>
    /\ loopDone' = {}
    /\ UNCHANGED <<macroVars, boardVars, queryVars,
                   progressStatus, workItems, groupBy, clock, ganttItems, prevItems, loads,
                   ganttData>>

\* a step that leaves the index where it is when the item was processed before
LoopStepNoAdvance ==
    /\ loopPc = "loop"
    /\ loopIdx <= Len(loopItems)
    /\ LET st == LoopBody(loopItems, loopItems[loopIdx],
                          [out |-> loopOut, done |-> loopDone], clock)
       IN /\ loopOut' = st.out
          /\ loopDone' = st.done
    /\ loopIdx' = IF loopItems[loopIdx].id \in loopDone
                  THEN loopIdx ELSE loopIdx + 1
    /\ UNCHANGED <<macroVars, boardVars, queryVars,
                   progressStatus, workItems, groupBy, clock, ganttItems, prevItems, loads,
                   ganttData, loopPc, loopItems>>

\* one iteration of the for loop
LoopStep ==
    /\ loopPc = "loop"
    /\ loopIdx <= Len(loopItems)
    /\ LET st == LoopBody(loopItems, loopItems[loopIdx],
                          [out |-> loopOut, done |-> loopDone], clock)
       IN /\ loopOut' = st.out
          /\ loopDone' = st.done
    /\ loopIdx' = loopIdx + 1
    /\ UNCHANGED <<macroVars, boardVars, queryVars,
                   progressStatus, workItems, groupBy, clock, ganttItems, prevItems, loads,
                   ganttData, loopPc, loopItems>>

\* the loop is exhausted: return this.sortGanttItems(ganttItems)
LoopReturn ==
    /\ loopPc = "loop"
    /\ loopIdx > Len(loopItems)
    /\ loopOut' = sortGanttItems(loopOut)
    /\ loopPc' = "done"
    /\ UNCHANGED <<macroVars, boardVars, queryVars,
                   progressStatus, workItems, groupBy, clock, ganttItems, prevItems, loads,
                   ganttData, loopItems, loopIdx, loopDone>>

NextLoop == LoopStart \/ LoopStep \/ LoopReturn

\* the call is not suspended: it is synchronous code on one thread
SpecLoop == InitLoop /\ [][NextLoop]_vars /\ WF_vars(NextLoop)

----------------------------------------------------------------------------
(* The timeline status of one work item, asked for as time passes *)

InitHealth ==
    /\ workItems \in HealthLists
    /\ groupBy = "none"
    /\ clock = 0
    /\ ganttItems = << >>
    /\ prevItems = << >>
    /\ loads = 0
    /\ ganttData = NoData
    /\ loopPc = "idle"
    /\ loopItems = << >>
    /\ loopIdx = 0
    /\ loopOut = << >>
    /\ loopDone = {}
    /\ progressStatus = NoStatus
    /\ IdleMacro /\ IdleBoards /\ IdleQuery

\* half a day passes
TickHalfDay ==
    /\ clock < MaxDateSteps * DateStep
    /\ clock' = clock + DateStep
    /\ UNCHANGED <<macroVars, boardVars, queryVars,
                   progressStatus, workItems, groupBy, ganttItems, prevItems,
                   loads, ganttData, loopPc, loopItems, loopIdx, loopOut,
                   loopDone>>

\* a call of calculateProgressStatus(workItems[1])
CalculateProgressStatus ==
    /\ progressStatus' =
          [calls |-> IF progressStatus.calls < 2
                     THEN progressStatus.calls + 1 ELSE 2,
           status |-> calculateProgressStatus(workItems[1], clock),
           prev |-> progressStatus.status,
           now |-> clock]
    /\ UNCHANGED <<macroVars, boardVars, queryVars,
                   workItems, groupBy, clock, ganttItems, prevItems, loads,
                   ganttData, loopPc, loopItems, loopIdx, loopOut, loopDone>>

NextHealth == TickHalfDay \/ CalculateProgressStatus

SpecHealth == InitHealth /\ [][NextHealth]_vars

----------------------------------------------------------------------------
(* The iteration macro, resolved as time passes *)

SprintNames == <<"Sprint 1", "Sprint 2", "Sprint 3", "Sprint 4", "Sprint 5">>

\* the classification node of sprint i: without dates, with dates of its
\* own half day, or with dates that reach to the end of the calendar
IterationNode(i, kind) ==
    [name |-> i,
     path |-> <<"Project", "\\", SprintNames[i]>>,
     startDate |-> IF kind = "undated" THEN Undefined
                   ELSE Some((i - 1) * DateStep),
     finishDate |-> IF kind = "undated" THEN Undefined
                    ELSE IF kind = "sprint" THEN Some(i * DateStep)
                    ELSE Some(MaxDateSteps * DateStep)]

\* the iteration trees of a project: only the first sprint may be a long
\* one, and the nodes come in the order of the names, or, when all have
\* dates of their own, in the reverse order too
Calendars ==
    UNION {{[i \in 1..n |-> IterationNode(i, kinds[i])] :
               kinds \in {k \in [1..n -> {"undated", "sprint", "long"}] :
                              \A i \in 2..n : k[i] # "long"}} :
           n \in 0..MaxIterations}
    \cup {[i \in 1..MaxIterations |->
               IterationNode(MaxIterations + 1 - i, "sprint")]}

MacroInputs ==
    {<<"Project", "\\", "Sprint 1">>,
     << >>,
     <<"+", "1">>,
     <<"@CurrentIteration">>,
     <<"@currentiteration", "-", "1">>,
     <<"@CURRENTITERATION", " ", "+", " ", "1">>,
     <<"@CurrentIteration", "+", "2">>,
     <<"@CurrentIteration", "-", "1", "0">>,
     <<"@CurrentIteration", "-", "2">>,
     <<"@CurrentIteration", "+">>,
     <<"Project", "\\", "@CurrentIteration", "+", "1", "\\", "Sprint 1">>}

InitMacro ==
    /\ workItems = << >>
    /\ groupBy = "none"
    /\ clock = 0
    /\ ganttItems = << >>
    /\ prevItems = << >>
    /\ loads = 0
    /\ ganttData = NoData
    /\ loopPc = "idle"
    /\ loopItems = << >>
    /\ loopIdx = 0
    /\ loopOut = << >>
    /\ loopDone = {}
    /\ progressStatus = NoStatus
    /\ iterationService = [witClient |-> FALSE, iterationsCache |-> Undefined]
    /\ classificationNodes \in Calendars
    /\ macroCall = NoMacroCall
    /\ IdleBoards /\ IdleQuery

\* IterationService.initialize
Initialize ==
    /\ ~iterationService.witClient
    /\ iterationService' = [iterationService EXCEPT !.witClient = TRUE]
    /\ UNCHANGED <<classificationNodes, macroCall, boardVars, queryVars,
                   progressStatus, workItems, groupBy, clock, ganttItems,
                   prevItems, loads, ganttData, loopVars>>

\* a call of getTeamIterations by another method of the service
GetTeamIterations ==
    /\ \E ok \in BOOLEAN :
          iterationService' =
              getTeamIterations(iterationService, classificationNodes, ok,
                                clock).service
    /\ UNCHANGED <<classificationNodes, macroCall, boardVars, queryVars,
                   progressStatus, workItems, groupBy, clock, ganttItems,
                   prevItems, loads, ganttData, loopVars>>

\* IterationService.clearCache
ClearCache ==
    /\ IsDefined(iterationService.iterationsCache)
    /\ iterationService' = [iterationService EXCEPT !.iterationsCache = Undefined]
    /\ UNCHANGED <<classificationNodes, macroCall, boardVars, queryVars,
                   progressStatus, workItems, groupBy, clock, ganttItems,
                   prevItems, loads, ganttData, loopVars>>

\* a call of resolveIterationMacro(macro)
ResolveIterationMacro ==
    /\ \E macro \in MacroInputs, ok \in BOOLEAN :
          LET r == resolveIterationMacro(macro, iterationService,
                                         classificationNodes, ok, clock)
          IN /\ iterationService' = r.service
             /\ macroCall' = [called |-> TRUE, macro |-> macro, now |-> clock,
                              initialized |-> iterationService.witClient,
                              iterations |-> r.iterations, threw |-> r.threw,
                              value |-> r.value]
    /\ UNCHANGED <<classificationNodes, boardVars, queryVars,
                   progressStatus, workItems, groupBy, clock, ganttItems,
                   prevItems, loads, ganttData, loopVars>>

NextMacro ==
    \/ TickHalfDay
    \/ Initialize
    \/ GetTeamIterations
    \/ ClearCache
    \/ ResolveIterationMacro

SpecMacro == InitMacro /\ [][NextMacro]_vars

----------------------------------------------------------------------------
(* Saved boards: the GanttHub handlers and direct calls of the service *)

StateChoices == {{"New", "Active", "Resolved"}, {"Active"}, {"Resolved"}}

ZoomChoices == {"day", "week", "month"}

GroupByChoices == {"none", "type"}

\* an id that generateId does not produce
AbsentBoardId == <<0, 0>>

StoredIds == {localStorage.boards[i].id : i \in 1..Len(localStorage.boards)}

\* the settings of GanttHub that a board stores
Hub ==
    [filters |-> filters, zoom |-> zoom, groupBy |-> groupBy,
     currentBoardId |-> currentBoardId]

\* loadBoard(boardId) on the store: [hub, currentBoard]
loadBoard(hub, store, boardId) ==
    LET board == getBoard(store.boards, boardId)
    IN IF IsDefined(board)
       THEN [hub |-> [filters |-> board[1].filters,
                      zoom |-> board[1].zoom,
                      groupBy |-> IF IsDefined(board[1].filters.groupBy)
                                  THEN board[1].filters.groupBy[1] ELSE "none",
                      currentBoardId |-> Some(boardId)],
             currentBoard |-> Some(boardId)]
       ELSE [hub |-> hub, currentBoard |-> store.currentBoard]

\* the state setters of a handler
SetHub(hub) ==
    /\ filters' = hub.filters
    /\ zoom' = hub.zoom
    /\ groupBy' = hub.groupBy
    /\ currentBoardId' = hub.currentBoardId

\* the init effect up to setUser
SetUser ==
    /\ ~user
    /\ user' = TRUE
    /\ UNCHANGED <<localStorage, filters, zoom, groupBy, currentBoardId,
                   boardsLoaded, boardCall, macroVars, queryVars,
                   conversionVars, clock>>

\* the init effect from getSavedBoards on
LoadBoards ==
    /\ user /\ ~boardsLoaded
    /\ boardsLoaded' = TRUE
    /\ IF Len(localStorage.boards) = 0
       THEN \E random \in 1..MaxRandom :
               LET created == createDefaultBoard(localStorage.boards, clock, random)
               IN /\ localStorage' = [boards |-> created.boards,
                                      currentBoard |-> Some(created.board[1].id)]
                  /\ currentBoardId' = Some(created.board[1].id)
                  /\ UNCHANGED <<filters, zoom, groupBy>>
       ELSE LET lastBoardId == localStorage.currentBoard
                target == IF /\ IsDefined(lastBoardId)
                             /\ IsDefined(getBoard(localStorage.boards, lastBoardId[1]))
                          THEN lastBoardId[1]
                          ELSE localStorage.boards[1].id
                loaded == loadBoard(Hub, localStorage, target)
            IN /\ SetHub(loaded.hub)
               /\ localStorage' = [localStorage EXCEPT
                                      !.currentBoard = loaded.currentBoard]
    /\ boardCall' = NoBoardCall
    /\ UNCHANGED <<user, macroVars, queryVars, conversionVars, clock>>

\* handleSaveBoard(name)
HandleSaveBoard ==
    /\ Len(localStorage.boards) < MaxBoards
    /\ \E random \in 1..MaxRandom :
          LET saved == saveBoard(localStorage.boards,
                                 [id |-> Undefined, name |-> <<"Board">>,
                                  filters |-> [filters EXCEPT
                                                  !.groupBy = Some(groupBy)],
                                  zoom |-> zoom],
                                 clock, random)
          IN /\ localStorage' = [boards |-> saved.boards,
                                 currentBoard |-> Some(saved.board[1].id)]
             /\ currentBoardId' = Some(saved.board[1].id)
    /\ boardCall' = NoBoardCall
    /\ UNCHANGED <<filters, zoom, groupBy, user, boardsLoaded, macroVars,
                   queryVars, conversionVars, clock>>

\* handleDeleteBoard that leaves the store empty after the last board went
HandleDeleteBoardNoDefault ==
    /\ \E boardId \in StoredIds :
          LET boards == deleteBoard(localStorage.boards, boardId)
              store == [localStorage EXCEPT !.boards = boards]
          IN IF currentBoardId = Some(boardId) /\ Len(boards) > 0
             THEN LET loaded == loadBoard(Hub, store, boards[1].id)
                  IN /\ SetHub(loaded.hub)
                     /\ localStorage' = [store EXCEPT
                                            !.currentBoard = loaded.currentBoard]
             ELSE /\ localStorage' = store
                  /\ UNCHANGED <<filters, zoom, groupBy, currentBoardId>>
    /\ boardCall' = NoBoardCall
    /\ UNCHANGED <<user, boardsLoaded, macroVars, queryVars, conversionVars,
                   clock>>

\* handleDeleteBoard(boardId) for a board of the list
HandleDeleteBoard ==
    /\ \E boardId \in StoredIds, random \in 1..MaxRandom :
          LET boards == deleteBoard(localStorage.boards, boardId)
              store == [localStorage EXCEPT !.boards = boards]
          IN IF currentBoardId = Some(boardId)
             THEN LET created == createDefaultBoard(boards, clock, random)
                      target == IF Len(boards) > 0 THEN boards[1].id
                                ELSE created.board[1].id
                      refilled == IF Len(boards) > 0 THEN store
                                  ELSE [store EXCEPT !.boards = created.boards]
                      loaded == loadBoard(Hub, refilled, target)
                  IN /\ SetHub(loaded.hub)
                     /\ localStorage' = [refilled EXCEPT
                                            !.currentBoard = loaded.currentBoard]
             ELSE /\ localStorage' = store
                  /\ UNCHANGED <<filters, zoom, groupBy, currentBoardId>>
    /\ boardCall' = NoBoardCall
    /\ UNCHANGED <<user, boardsLoaded, macroVars, queryVars, conversionVars,
                   clock>>

\* handleBoardSelect(boardId) for a board of the list
HandleBoardSelect ==
    /\ \E boardId \in StoredIds :
          LET loaded == loadBoard(Hub, localStorage, boardId)
          IN /\ SetHub(loaded.hub)
             /\ localStorage' = [localStorage EXCEPT
                                    !.currentBoard = loaded.currentBoard]
    /\ boardCall' = NoBoardCall
    /\ UNCHANGED <<user, boardsLoaded, macroVars, queryVars, conversionVars,
                   clock>>

\* the store after saveBoard({...board, [key]: value}) for the current
\* board, when there is one; the key groupBy is the one inside the filters
SaveToCurrentBoard(key, value) ==
    IF /\ IsDefined(currentBoardId)
       /\ IsDefined(getBoard(localStorage.boards, currentBoardId[1]))
    THEN LET board == getBoard(localStorage.boards, currentBoardId[1])[1]
             changed == CASE key = "filters" -> [board EXCEPT !.filters = value]
                          [] key = "zoom" -> [board EXCEPT !.zoom = value]
                          [] key = "groupBy" ->
                                [board EXCEPT !.filters.groupBy = Some(value)]
         IN [localStorage EXCEPT
                !.boards = saveBoard(localStorage.boards,
                                     [id |-> Some(changed.id),
                                      name |-> changed.name,
                                      filters |-> changed.filters,
                                      zoom |-> changed.zoom],
                                     clock, 1).boards]
    ELSE localStorage

\* handleFiltersChange({...filters, states}) as the toolbar calls it
HandleFiltersChange ==
    /\ \E states \in StateChoices :
          LET newFilters == [filters EXCEPT !.states = states]
          IN /\ filters' = newFilters
             /\ localStorage' = SaveToCurrentBoard("filters", newFilters)
    /\ boardCall' = NoBoardCall
    /\ UNCHANGED <<zoom, groupBy, currentBoardId, user, boardsLoaded,
                   macroVars, queryVars, conversionVars, clock>>

\* handleZoomChange(newZoom)
HandleZoomChange ==
    /\ \E newZoom \in ZoomChoices :
          /\ zoom' = newZoom
          /\ localStorage' = SaveToCurrentBoard("zoom", newZoom)
    /\ boardCall' = NoBoardCall
    /\ UNCHANGED <<filters, groupBy, currentBoardId, user, boardsLoaded,
                   macroVars, queryVars, conversionVars, clock>>

\* handleGroupByChange(newGroupBy)
HandleGroupByChange ==
    /\ \E newGroupBy \in GroupByChoices :
          /\ groupBy' = newGroupBy
          /\ localStorage' = SaveToCurrentBoard("groupBy", newGroupBy)
    /\ boardCall' = NoBoardCall
    /\ UNCHANGED <<filters, zoom, currentBoardId, user, boardsLoaded,
                   macroVars, queryVars, conversionVars, clock>>

\* the record of a direct call of the service
BoardCalled(op, id, r) ==
    /\ localStorage' = [localStorage EXCEPT !.boards = r.boards]
    /\ boardCall' = [op |-> op, id |-> id, threw |-> r.threw,
                     result |-> r.board, before |-> localStorage.boards,
                     after |-> r.boards]
    /\ UNCHANGED <<filters, zoom, groupBy, currentBoardId, user, boardsLoaded,
                   macroVars, queryVars, conversionVars, clock>>

\* saveBoard({name, filters, zoom}): a new board
CreateBoard ==
    /\ Len(localStorage.boards) < MaxBoards
    /\ \E newZoom \in {"month"}, random \in 1..MaxRandom :
          BoardCalled("createBoard", AbsentBoardId,
                      saveBoard(localStorage.boards,
                                [id |-> Undefined, name |-> <<"Test Board">>,
                                 filters |-> [states |-> {"Active"},
                                              groupBy |-> Some("type")],
                                 zoom |-> newZoom],
                                clock, random))

\* saveBoard({id, name, filters, zoom}) with a stored or an unknown id
SaveBoard ==
    \E id \in StoredIds \cup {AbsentBoardId} :
        BoardCalled("saveBoard", id,
                    saveBoard(localStorage.boards,
                              [id |-> Some(id), name |-> <<"Updated">>,
                               filters |-> [states |-> {"New", "Active", "Resolved"},
                                            groupBy |-> Undefined],
                               zoom |-> "week"],
                              clock, 1))

\* renameBoard(id, "Renamed")
RenameBoard ==
    \E id \in StoredIds \cup {AbsentBoardId} :
        BoardCalled("renameBoard", id,
                    renameBoard(localStorage.boards, id, <<"Renamed">>, clock, 1))

\* duplicateBoard(id, "Duplicate")
DuplicateBoard ==
    /\ Len(localStorage.boards) < MaxBoards
    /\ \E id \in StoredIds \cup {AbsentBoardId}, random \in 1..MaxRandom :
          BoardCalled("duplicateBoard", id,
                      duplicateBoard(localStorage.boards, id, <<"Duplicate">>,
                                     clock, random))

\* importBoard(exportBoard(id))
ImportBoard ==
    /\ Len(localStorage.boards) < MaxBoards
    /\ \E id \in StoredIds \cup {AbsentBoardId}, random \in 1..MaxRandom :
          BoardCalled("importBoard", id,
                      importBoard(localStorage.boards,
                                  exportBoard(localStorage.boards, id),
                                  clock, random))

InitBoards ==
    /\ workItems = << >>
    /\ groupBy = "none"
    /\ clock = 0
    /\ ganttItems = << >>
    /\ prevItems = << >>
    /\ loads = 0
    /\ ganttData = NoData
    /\ loopPc = "idle"
    /\ loopItems = << >>
    /\ loopIdx = 0
    /\ loopOut = << >>
    /\ loopDone = {}
    /\ progressStatus = NoStatus
    /\ IdleMacro /\ IdleBoards /\ IdleQuery

\* the boards of a session: saved, selected and deleted
NextBoards ==
    \/ Tick
    \/ SetUser
    \/ LoadBoards
    \/ HandleSaveBoard
    \/ HandleDeleteBoard
    \/ HandleBoardSelect

SpecBoards == InitBoards /\ [][NextBoards]_vars

\* the three handlers, called while a board is selected
FiltersChangeOnBoard == IsDefined(currentBoardId) /\ HandleFiltersChange

ZoomChangeOnBoard == IsDefined(currentBoardId) /\ HandleZoomChange

GroupByChangeOnBoard == IsDefined(currentBoardId) /\ HandleGroupByChange

\* the settings of a session, changed while a board is selected
NextSettings ==
    \/ SetUser
    \/ LoadBoards
    \/ HandleBoardSelect
    \/ FiltersChangeOnBoard
    \/ ZoomChangeOnBoard
    \/ GroupByChangeOnBoard

SpecSettings == InitBoards /\ [][NextSettings]_vars

\* direct calls of the service, made within one millisecond, on a store
\* that starts empty
NextStore ==
    \/ CreateBoard
    \/ SaveBoard
    \/ RenameBoard
    \/ DuplicateBoard
    \/ ImportBoard

SpecStore == InitBoards /\ [][NextStore]_vars

----------------------------------------------------------------------------
(* Queries: loadWorkItems of GanttHub over WorkItemService.queryWorkItems *)

\* the work items of the project
Backlog ==
    <<WorkItem(1, Undefined, << >>, << >>, << >>, Profile(1)),
      WorkItem(2, Undefined, << >>, << >>, << >>, Profile(2))>>

\* what the WIQL query built from the filters selects
RECURSIVE QueryFrom(_, _)
QueryFrom(f, i) ==
    IF i > Len(Backlog) THEN << >>
    ELSE (IF Backlog[i].state \in f.states THEN <<Backlog[i]>> ELSE << >>)
         \o QueryFrom(f, i + 1)

Query(f) == QueryFrom(f, 1)

\* ids.slice(i, i + 200)
BatchSize == 200

Batch(found, next) ==
    SubSeq(found, next,
           IF next + BatchSize - 1 < Len(found) THEN next + BatchSize - 1
           ELSE Len(found))

\* the rows that loadWorkItems computes from the items of a query
RowsOf(items, groupByOption) ==
    convertToGanttItems(applyGrouping(items, groupByOption, clock), clock)

InFlight == {i \in 1..Len(pending) : pending[i].pc # "done"}

\* what the query layer and the display leave alone
queryRest ==
    <<macroVars, localStorage, zoom, currentBoardId, user, boardsLoaded,
      boardCall, clock, prevItems, loads, ganttData, loopVars, progressStatus>>

\* loadWorkItems up to the first await of queryWorkItems: the activation
\* keeps the filters and the groupBy of its closure, and queryWorkItems puts
\* a new AbortController into the field
StartLoad(f, g) ==
    /\ Len(pending) < MaxPending
    /\ isLoading' = TRUE
    /\ abortController' = Some(Len(pending) + 1)
    /\ pending' = Append(pending,
                         [id |-> Len(pending) + 1, filters |-> f, groupBy |-> g,
                          pc |-> "wiql", found |-> << >>, next |-> 1,
                          items |-> << >>, cancelled |-> FALSE,
                          result |-> Undefined, threw |-> FALSE])
    /\ UNCHANGED <<aborted, workItems, ganttItems>>

\* queryWorkItems of activation i returns items (or throws) and loadWorkItems
\* runs to its end
Complete(i, items, threw) ==
    /\ pending' = [pending EXCEPT
                      ![i] = [@ EXCEPT !.pc = "done",
                                       !.result = IF threw THEN Undefined
                                                  ELSE Some(items),
                                       !.threw = threw]]
    /\ IF threw
       THEN UNCHANGED <<workItems, ganttItems>>
       ELSE /\ workItems' = items
            /\ ganttItems' = RowsOf(items, pending[i].groupBy)
    /\ isLoading' = FALSE
    /\ UNCHANGED <<abortController, aborted>>

\* a state filter toggled in the toolbar, which is disabled while loading;
\* the effect on [filters, groupBy, user] starts loadWorkItems
FiltersChanged ==
    /\ user /\ ~isLoading
    /\ \E states \in StateChoices \ {filters.states} :
          LET newFilters == [filters EXCEPT !.states = states]
          IN /\ filters' = newFilters
             /\ StartLoad(newFilters, groupBy)
    /\ UNCHANGED <<groupBy, queryRest>>

\* a new value in the group-by selector, which is never disabled
GroupByChanged ==
    /\ user
    /\ \E newGroupBy \in GroupByChoices \ {groupBy} :
          /\ groupBy' = newGroupBy
          /\ StartLoad(filters, newGroupBy)
    /\ UNCHANGED <<filters, queryRest>>

\* the refresh button, disabled while loading
Refresh ==
    /\ user /\ ~isLoading
    /\ StartLoad(filters, groupBy)
    /\ UNCHANGED <<filters, groupBy, queryRest>>

\* queryByWiql of an activation settles
WiqlReturns ==
    /\ \E i \in InFlight, ok \in BOOLEAN :
          /\ pending[i].pc = "wiql"
          /\ IF ~ok THEN Complete(i, << >>, TRUE)
             ELSE IF pending[i].id \in aborted THEN Complete(i, << >>, FALSE)
             ELSE IF Len(Query(pending[i].filters)) = 0
                  THEN Complete(i, << >>, FALSE)
             ELSE /\ pending' = [pending EXCEPT
                                    ![i] = [@ EXCEPT
                                               !.pc = "batch",
                                               !.found = Query(pending[i].filters)]]
                  /\ UNCHANGED <<isLoading, abortController, aborted,
                                 workItems, ganttItems>>
    /\ UNCHANGED <<filters, groupBy, queryRest>>

\* getWorkItems of the batch an activation waits for settles; a batch that
\* fails is skipped
BatchReturns ==
    /\ \E i \in InFlight, ok \in BOOLEAN :
          /\ pending[i].pc = "batch"
          /\ LET a == pending[i]
                 allWorkItems == a.items \o (IF ok THEN Batch(a.found, a.next)
                                            ELSE << >>)
             IN IF a.next + BatchSize > Len(a.found)
                THEN Complete(i, allWorkItems, FALSE)
                ELSE IF a.id \in aborted THEN Complete(i, << >>, FALSE)
                ELSE /\ pending' = [pending EXCEPT
                                       ![i] = [@ EXCEPT
                                                  !.items = allWorkItems,
                                                  !.next = a.next + BatchSize]]
                     /\ UNCHANGED <<isLoading, abortController, aborted,
                                    workItems, ganttItems>>
    /\ UNCHANGED <<filters, groupBy, queryRest>>

\* cancelPendingRequests while calls are in flight; `cancelled` notes the
\* calls that were in flight then
CancelPendingRequests ==
    /\ InFlight # {}
    /\ IF IsDefined(abortController)
       THEN /\ aborted' = aborted \cup {abortController[1]}
            /\ abortController' = Undefined
       ELSE UNCHANGED <<aborted, abortController>>
    /\ pending' = [i \in 1..Len(pending) |->
                      IF i \in InFlight THEN [pending[i] EXCEPT !.cancelled = TRUE]
                      ELSE pending[i]]
    /\ UNCHANGED <<isLoading, workItems, ganttItems, filters, groupBy, queryRest>>

\* a session whose user is set and whose services are initialized
InitQuery ==
    /\ workItems = << >>
    /\ groupBy = "none"
    /\ clock = 0
    /\ ganttItems = << >>
    /\ prevItems = << >>
    /\ loads = 0
    /\ ganttData = NoData
    /\ loopPc = "idle"
    /\ loopItems = << >>
    /\ loopIdx = 0
    /\ loopOut = << >>
    /\ loopDone = {}
    /\ progressStatus = NoStatus
    /\ IdleMacro /\ IdleQuery
    /\ localStorage = [boards |-> << >>, currentBoard |-> Undefined]
    /\ filters = DefaultFilters
    /\ zoom = "week"
    /\ currentBoardId = Undefined
    /\ user = TRUE
    /\ boardsLoaded = FALSE
    /\ boardCall = NoBoardCall

NextQuery ==
    \/ FiltersChanged
    \/ GroupByChanged
    \/ Refresh
    \/ WiqlReturns
    \/ BatchReturns
    \/ CancelPendingRequests

SpecQuery == InitQuery /\ [][NextQuery]_vars

----------------------------------------------------------------------------
(* Properties *)

\* the row lists a conversion has returned
RowLists == {ganttItems, ganttData.items}

RowIds(rows) == {rows[i].id : i \in 1..Len(rows)}

\* convertToGanttData has returned items and links
DataReturned == ganttData.called /\ ~ganttData.threw

\* C1: in every row of a conversion's output the end date is strictly
\* later than the start date, also when the record's target date equals or
\* precedes its start date.
C1_EndAfterStart ==
    \A rows \in RowLists : \A i \in 1..Len(rows) : rows[i].end > rows[i].start

\* a converted record whose target date is not after its start date
C1_Witness ==
    \E i \in 1..Len(ganttItems) :
        LET w == ganttItems[i].workItem
        IN /\ IsDefined(w.startDate) /\ IsDefined(w.targetDate)
           /\ w.targetDate[1] <= w.startDate[1]
           /\ ganttItems[i].end = w.startDate[1] + MsPerDay
           /\ ganttItems[i].duration = 1

\* C2: in every row of a conversion's output percentComplete (progress) is
\* between 0 and 100 inclusive, whatever the state and the work values.
C2_ProgressInRange ==
    \A rows \in RowLists : \A i \in 1..Len(rows) :
        0 <= rows[i].progress /\ rows[i].progress <= 100

\* C3: every dependency edge returned by a conversion has its source and its
\* target among the ids of the rows of that conversion; a predecessor id
\* that is not a row id produces no edge.
C3_LinkEndpointsAreRows ==
    DataReturned =>
        \A l \in 1..Len(ganttData.links) :
            /\ ganttData.links[l].source \in RowIds(ganttData.items)
            /\ ganttData.links[l].target \in RowIds(ganttData.items)

\* a conversion that returned an edge for a record that also lists a
\* predecessor outside the rows
C3_Witness ==
    /\ DataReturned
    /\ \E l \in 1..Len(ganttData.links) : \E i \in 1..Len(workItems) :
          /\ ganttData.links[l].target = workItems[i].id
          /\ AbsentId \in SeqToSet(workItems[i].predecessors[1])

C5_SameRowsTwice == loads = 2 => ganttItems = prevItems

\* C6: no transformation step throws; each returns a result.
C6_NeverThrows == ~ganttData.threw

\* C7: the conversion of a finite list terminates, also when the parentId
\* references form a cycle.
C7_Terminates == <>(loopPc = "done")

\* a finished conversion of a list in which two records are each other's parent
C7_Witness ==
    /\ loopPc = "done"
    /\ \E i, j \in 1..Len(workItems) :
          /\ i # j
          /\ ParentIdOf(workItems[i]) = workItems[j].id
          /\ ParentIdOf(workItems[j]) = workItems[i].id

\* the stepwise loop returns what convertToGanttItems returns
LoopAgrees ==
    loopPc = "done" => loopOut = convertToGanttItems(loopItems, clock)

\* C8: a row is of type summary if and only if some other row of the same
\* output has this row as its parent; otherwise it is a task (leaf).
C8_SummaryIffHasChildRow ==
    \A rows \in RowLists : \A i \in 1..Len(rows) :
        rows[i].type = "summary" <=>
            \E j \in 1..Len(rows) : j # i /\ rows[j].parent = rows[i].id

\* C9: for records with pairwise distinct ids the output has exactly one
\* row per record: none is omitted and no id appears twice, also when a
\* record was pulled in early as the parent of a record that precedes it.
C9_OneRowPerRecord ==
    LET ids == [i \in 1..Len(processedItems) |-> processedItems[i].id]
    IN (/\ loads > 0
        /\ \A i, j \in 1..Len(ids) : i # j => ids[i] # ids[j])
       => /\ Len(ganttItems) = Len(ids)
          /\ \A i \in 1..Len(ids) :
                Cardinality({r \in 1..Len(ganttItems) :
                                ganttItems[r].id = ids[i]}) = 1

\* a conversion of a list in which a record precedes its parent
C9_Witness ==
    /\ loads > 0
    /\ groupBy = "none"
    /\ \E i, j \in 1..Len(workItems) :
          i < j /\ ParentIdOf(workItems[i]) = workItems[j].id
    /\ Len(ganttItems) = Len(workItems)

\* C10: for each record R and each id P listed in R.predecessors there is
\* exactly one edge from P to R.id when both are row ids, and every edge
\* comes from such a listing: successors add none.
C10_OneLinkPerPredecessor ==
    DataReturned =>
        /\ \A i \in 1..Len(processedItems) :
              LET R == processedItems[i]
              IN \A k \in 1..Len(R.predecessors[1]) :
                    LET P == R.predecessors[1][k]
                    IN (P \in RowIds(ganttData.items) /\ R.id \in RowIds(ganttData.items))
                       => Cardinality({l \in 1..Len(ganttData.links) :
                              /\ ganttData.links[l].source = P
                              /\ ganttData.links[l].target = R.id}) = 1
        /\ \A l \in 1..Len(ganttData.links) :
              \E i \in 1..Len(processedItems) :
                  /\ processedItems[i].id = ganttData.links[l].target
                  /\ ganttData.links[l].source
                        \in SeqToSet(processedItems[i].predecessors[1])

\* a conversion that returned edges for records that carry successors
C10_Witness ==
    /\ DataReturned
    /\ Len(ganttData.links) > 0
    /\ \E i \in 1..Len(workItems) : Len(workItems[i].successors[1]) > 0

\* C11: edge ids come from a counter that starts at 1 and grows by one per
\* emitted edge: the l-th edge has id l, and the edges are in the iteration
\* order of the input (by record, then by position in its predecessors).
C11_LinkIdsCountFromOne ==
    DataReturned =>
        LET links == ganttData.links
            items == processedItems
            recAt(l) == CHOOSE i \in 1..Len(items) : items[i].id = links[l].target
            predAt(l) == CHOOSE k \in 1..Len(items[recAt(l)].predecessors[1]) :
                            items[recAt(l)].predecessors[1][k] = links[l].source
        IN /\ \A l \in 1..Len(links) : links[l].id = l
           /\ \A l, m \in 1..Len(links) :
                 l < m => \/ recAt(l) < recAt(m)
                          \/ recAt(l) = recAt(m) /\ predAt(l) < predAt(m)

\* a conversion that returned two edges into one record and an edge into
\* another record
C11_Witness ==
    /\ DataReturned
    /\ \E l, m, n \in 1..Len(ganttData.links) :
          /\ l < m /\ m < n
          /\ ganttData.links[l].target = ganttData.links[m].target
          /\ ganttData.links[m].target # ganttData.links[n].target
          /\ ganttData.links[n].id = 3

\* C12: the row of a record has start and end resolved by the rules, in
\* priority order: both dates present, used as given; only a start date,
\* end = start + 5 days; only a target date, start = target - 5 days;
\* neither, start = createdDate and end = start + 5 days; then an end that
\* is not after the start becomes start + 1 day; and the duration is the
\* least whole number of days that covers end - start.
C12_DateRules ==
    \A rows \in RowLists : \A i \in 1..Len(rows) :
        LET w == rows[i].workItem
            hasStart == IsDefined(w.startDate)
            hasTarget == IsDefined(w.targetDate)
            start == CASE hasStart -> w.startDate[1]
                       [] ~hasStart /\ hasTarget -> w.targetDate[1] - 5 * MsPerDay
                       [] OTHER -> w.createdDate[1]
            given == CASE hasTarget -> w.targetDate[1]
                       [] OTHER -> start + 5 * MsPerDay
            end == IF given <= start THEN start + MsPerDay ELSE given
        IN /\ rows[i].start = start
           /\ rows[i].end = end
           /\ (rows[i].duration - 1) * MsPerDay < end - start
           /\ end - start <= rows[i].duration * MsPerDay

\* a converted record with both dates whose span is not a whole number of
\* days
C12_Witness ==
    \E i \in 1..Len(ganttItems) :
        LET w == ganttItems[i].workItem
        IN /\ IsDefined(w.startDate) /\ IsDefined(w.targetDate)
           /\ w.targetDate[1] - w.startDate[1] = 3 * DateStep
           /\ ganttItems[i].duration = 2

\* C13: progress is 0 in the states New and To Do, 100 in Closed and Done,
\* 90 in Resolved, and in Active and Doing it is completedWork over
\* completedWork + remainingWork as a percentage rounded to the nearest
\* integer (halves up) when both values are present and their sum is
\* positive, and 50 otherwise.
C13_ProgressByState ==
    \A rows \in RowLists : \A i \in 1..Len(rows) :
        LET w == rows[i].workItem
            p == rows[i].progress
        IN /\ w.state \in {"New", "To Do"} => p = 0
           /\ w.state \in {"Closed", "Done"} => p = 100
           /\ w.state = "Resolved" => p = 90
           /\ w.state \in {"Active", "Doing"} =>
                IF /\ IsDefined(w.completedWork) /\ IsDefined(w.remainingWork)
                   /\ w.completedWork[1] + w.remainingWork[1] > 0
                THEN LET c == w.completedWork[1]
                         total == c + w.remainingWork[1]
                     IN /\ 2 * total * p <= 200 * c + total
                        /\ 200 * c + total < 2 * total * (p + 1)
                ELSE p = 50

\* a converted record in progress with one unit of work done out of three
C13_Witness ==
    \E i \in 1..Len(ganttItems) :
        LET w == ganttItems[i].workItem
        IN /\ w.state = "Doing"
           /\ w.completedWork = Some(1) /\ w.remainingWork = Some(2)
           /\ ganttItems[i].progress = 33

\* C14: a record whose state is none of the known states has progress 0,
\* whatever its work values are.
C14_UnknownStateIsZero ==
    \A rows \in RowLists : \A i \in 1..Len(rows) :
        rows[i].workItem.state \notin WorkItemStates => rows[i].progress = 0

\* C15: for a record whose state is neither done nor not-started, with
\* midpoint = start + half the duration in days (a half day counted when the
\* duration is odd) and now the time of the call: the status is Off Track
\* when now >= end, At Risk when midpoint <= now < end, and On Track when
\* now < midpoint.
C15_StatusByTimeline ==
    (/\ progressStatus.calls > 0
     /\ workItems[1].state
           \notin {"Closed", "Resolved", "Done", "New", "To Do"})
    => LET now == progressStatus.now
           d == calculateDates(workItems[1], now)
       IN progressStatus.status =
             IF now >= d.endDate THEN "Off Track"
             ELSE IF 2 * (now - d.startDate) >= d.duration * MsPerDay
                  THEN "At Risk"
             ELSE "On Track"

\* C16: a record in a done state (Closed, Resolved, Done) has status Done
\* and a record in a not-started state (New, To Do) has status Not Started,
\* whatever its dates and whatever the time of the call.
C16_StatusByState ==
    progressStatus.calls > 0
    => /\ workItems[1].state \in {"Closed", "Resolved", "Done"}
             => progressStatus.status = "Done"
       /\ workItems[1].state \in {"New", "To Do"}
             => progressStatus.status = "Not Started"

\* C17: the status depends only on the record: two calls for the same record
\* return the same status whenever they run.
C17_SameStatusTwice ==
    progressStatus.calls = 2 => progressStatus.status = progressStatus.prev

\* a row of rows is the parent of at least one row of rows
HasChildRow(rows, i) == \E k \in 1..Len(rows) : rows[k].parent = rows[i].id

\* C18: in the output order every row that has at least one child row comes
\* before every row that has none, and rows alike in this respect are in
\* ascending order of start.
C18_ParentsFirstThenByStart ==
    \A rows \in RowLists : \A i, j \in 1..Len(rows) :
        i < j =>
            /\ HasChildRow(rows, j) => HasChildRow(rows, i)
            /\ HasChildRow(rows, i) = HasChildRow(rows, j)
                  => rows[i].start <= rows[j].start

\* a conversion that moved a parent to the front and swapped two childless
\* rows into ascending order of start
C18_Witness ==
    /\ loads > 0
    /\ Len(ganttItems) = 3
    /\ HasChildRow(ganttItems, 1)
    /\ ganttItems[1].id # workItems[1].id
    /\ ~HasChildRow(ganttItems, 2)
    /\ ganttItems[2].start < ganttItems[3].start
    /\ ganttItems[2].id > ganttItems[3].id

\* C19: in the output order every row whose parent row is present comes
\* after that parent row, at every depth of the hierarchy and also below a
\* synthetic group row.
C19_ParentBeforeChild ==
    \A rows \in RowLists : \A i, j \in 1..Len(rows) :
        rows[j].parent = rows[i].id => i < j

\* the group label the grouping option gives a record; records without
\* the field share one label
KeyOf(w) ==
    CASE groupBy = "assignedTo" ->
           IF w.assignedTo \in {Undefined, Some("")} THEN "Unassigned"
           ELSE w.assignedTo[1]
      [] groupBy = "type" -> w.type
      [] groupBy = "state" -> w.state
      [] groupBy = "iteration" ->
           IF w.iterationPath = "" THEN "No Iteration" ELSE w.iterationPath

\* with grouping on, there is exactly one synthetic row (negative id) per
\* distinct group label and the row of every record has the synthetic row
\* of the record's label as its parent
GroupingReparents ==
    (loads > 0 /\ groupBy # "none") =>
        LET rows == ganttItems
            groupRows == {g \in 1..Len(rows) : rows[g].id < 0}
            keys == {KeyOf(workItems[i]) : i \in 1..Len(workItems)}
        IN /\ Cardinality(groupRows) = Cardinality(keys)
           /\ \A k \in keys :
                 Cardinality({g \in groupRows : rows[g].text = k}) = 1
           /\ \A i \in 1..Len(workItems) :
                 \E r \in 1..Len(rows) : \E g \in groupRows :
                     /\ rows[r].id = workItems[i].id
                     /\ rows[g].text = KeyOf(workItems[i])
                     /\ rows[r].parent = rows[g].id

\* C20: with groupBy set to assignee, type, state or iteration the output
\* has exactly one synthetic group row per distinct group key, and every
\* input record yields a leaf row (type task) whose parent is the synthetic
\* row of its own group.
C20_OneGroupRowPerKey ==
    /\ GroupingReparents
    /\ (loads > 0 /\ groupBy # "none") =>
          \A r \in 1..Len(ganttItems) :
              ganttItems[r].id > 0 => ganttItems[r].type = "task"

----------------------------------------------------------------------------
(* Properties of the iteration macro *)

\* the string contains the marker word, in whatever case
HasMarker(str) == \E i \in 1..Len(str) : str[i] \in MarkerSpellings

\* the offsets that the inputs spell out, read off by hand
SpelledOffset(str) ==
    CASE str = <<"@CurrentIteration">> -> 0
      [] str = <<"@currentiteration", "-", "1">> -> -1
      [] str = <<"@CURRENTITERATION", " ", "+", " ", "1">> -> 1
      [] str = <<"@CurrentIteration", "+", "2">> -> 2
      [] str = <<"@CurrentIteration", "-", "1", "0">> -> -10
      [] str = <<"@CurrentIteration", "-", "2">> -> -2
      [] str = <<"@CurrentIteration", "+">> -> 0
      [] str = <<"Project", "\\", "@CurrentIteration", "+", "1", "\\", "Sprint 1">> -> 1

\* the call resolved a macro against a calendar that it obtained
MacroResolved ==
    /\ macroCall.called
    /\ HasMarker(macroCall.macro)
    /\ ~macroCall.threw
    /\ IsDefined(macroCall.iterations)

\* position c (from 1) is the current period of the calendar at the time now
IsCurrentPeriod(calendar, now, c) ==
    \/ /\ calendar[c].isCurrent
       /\ \A j \in 1..(c - 1) : ~calendar[j].isCurrent
    \/ /\ \A j \in 1..Len(calendar) : ~calendar[j].isCurrent
       /\ IsDefined(calendar[c].startDate) /\ IsDefined(calendar[c].finishDate)
       /\ calendar[c].startDate[1] <= now /\ now <= calendar[c].finishDate[1]
       /\ \A j \in 1..(c - 1) :
             ~(/\ IsDefined(calendar[j].startDate)
               /\ IsDefined(calendar[j].finishDate)
               /\ calendar[j].startDate[1] <= now
               /\ now <= calendar[j].finishDate[1])

\* C21: a string in which the marker word does not occur, in whatever case,
\* comes back from resolveIterationMacro as it went in: the call does not
\* throw and does not return null.
C21_LiteralUnchanged ==
    (macroCall.called /\ ~HasMarker(macroCall.macro)) =>
        /\ ~macroCall.threw
        /\ macroCall.value = Some(macroCall.macro)

\* a path was returned as it is by a service that was never initialized
C21_Witness ==
    /\ macroCall.called
    /\ macroCall.macro = <<"Project", "\\", "Sprint 1">>
    /\ ~macroCall.initialized
    /\ macroCall.value = Some(<<"Project", "\\", "Sprint 1">>)

C22_WitnessFirst ==
    /\ MacroResolved
    /\ macroCall.macro = <<"@CurrentIteration">>
    /\ Cardinality({j \in 1..Len(macroCall.iterations[1]) :
                       macroCall.iterations[1][j].isCurrent}) >= 2
    /\ IsDefined(macroCall.value)

\* C23: with the current period at index c and the offset k that the macro
\* spells out (0 without sign and number), the result is the path of the
\* period at index c + k when that index is inside the calendar, and null
\* when it is not.
C23_OffsetFromCurrent ==
    MacroResolved =>
        LET calendar == macroCall.iterations[1]
            k == SpelledOffset(macroCall.macro)
        IN \A c \in 1..Len(calendar) :
              IsCurrentPeriod(calendar, macroCall.now, c) =>
                 IF 1 <= c + k /\ c + k <= Len(calendar)
                 THEN macroCall.value = Some(calendar[c + k].path)
                 ELSE macroCall.value = Undefined

\* an offset of +1 written with spaces led from the current period to the
\* last period of the calendar
C23_Witness ==
    /\ MacroResolved
    /\ macroCall.macro = <<"@CURRENTITERATION", " ", "+", " ", "1">>
    /\ Len(macroCall.iterations[1]) = MaxIterations
    /\ macroCall.value = Some(macroCall.iterations[1][MaxIterations].path)

\* a current period exists and the offset leads one past the last period
C23_WitnessOutside ==
    /\ MacroResolved
    /\ \E c \in 1..Len(macroCall.iterations[1]) :
          /\ IsCurrentPeriod(macroCall.iterations[1], macroCall.now, c)
          /\ c + SpelledOffset(macroCall.macro) = Len(macroCall.iterations[1]) + 1
    /\ macroCall.value = Undefined

----------------------------------------------------------------------------
(* Properties of the saved boards *)

IdsOf(boards) == {boards[i].id : i \in 1..Len(boards)}

\* a direct call of op was made with an id that the store did not hold
CalledWithUnknownId(op) ==
    /\ boardCall.op = op
    /\ boardCall.id \notin IdsOf(boardCall.before)

\* C25 as stated: an update or a rename with an id that is not in the store
\* throws.
C25_UnknownIdRaises ==
    (CalledWithUnknownId("saveBoard") \/ CalledWithUnknownId("renameBoard")) =>
        boardCall.threw

\* C25, amended: an update (saveBoard with an id) whose id is not in the
\* store throws; a rename whose id is not in the store returns null without
\* throwing; neither changes the store.
C25_UpdateRaisesRenameNull ==
    /\ CalledWithUnknownId("saveBoard") =>
          boardCall.threw /\ boardCall.after = boardCall.before
    /\ CalledWithUnknownId("renameBoard") =>
          /\ ~boardCall.threw
          /\ boardCall.result = Undefined
          /\ boardCall.after = boardCall.before

\* an update with an unknown id threw on a store that holds boards
C25_Witness ==
    /\ CalledWithUnknownId("saveBoard")
    /\ boardCall.before # << >>
    /\ boardCall.threw

\* a rename with an unknown id returned null on a store that holds boards
C25_WitnessRename ==
    /\ CalledWithUnknownId("renameBoard")
    /\ boardCall.before # << >>
    /\ boardCall.result = Undefined

\* the latest direct call copied a stored board (duplicate, or export and
\* import)
BoardCopied ==
    /\ boardCall.op \in {"duplicateBoard", "importBoard"}
    /\ boardCall.id \in IdsOf(boardCall.before)

\* C26: duplicating a stored board, or importing its exported JSON, adds
\* exactly one board; the stored boards, the source among them, stay as they
\* were; the new board has an id that no stored board has, and the filters
\* and the zoom of the source.
C26_CopyIsNewBoard ==
    BoardCopied =>
        LET n == Len(boardCall.before)
            source == getBoard(boardCall.before, boardCall.id)[1]
        IN /\ Len(boardCall.after) = n + 1
           /\ SubSeq(boardCall.after, 1, n) = boardCall.before
           /\ boardCall.after[n + 1].id \notin IdsOf(boardCall.before)
           /\ boardCall.after[n + 1].filters = source.filters
           /\ boardCall.after[n + 1].zoom = source.zoom

\* what holds of a copy: one board more, the stored ones untouched, filters
\* and zoom of the source, and the new board is the value returned
CopyKeepsSettings ==
    BoardCopied =>
        LET n == Len(boardCall.before)
            source == getBoard(boardCall.before, boardCall.id)[1]
        IN /\ Len(boardCall.after) = n + 1
           /\ SubSeq(boardCall.after, 1, n) = boardCall.before
           /\ boardCall.result = Some(boardCall.after[n + 1])
           /\ boardCall.after[n + 1].filters = source.filters
           /\ boardCall.after[n + 1].zoom = source.zoom

\* the board that is selected, as it is stored
CurrentBoard == getBoard(localStorage.boards, currentBoardId[1])

\* C29: while a board is selected, the stored board holds the filters, the
\* zoom and the group-by that were chosen last, so that loading it again
\* brings back all three.
C29_BoardHoldsLatestSettings ==
    (boardsLoaded /\ IsDefined(currentBoardId) /\ IsDefined(CurrentBoard)) =>
        LET reloaded == loadBoard(Hub, localStorage, currentBoardId[1]).hub
        IN /\ reloaded.filters.states = filters.states
           /\ reloaded.zoom = zoom
           /\ reloaded.groupBy = groupBy

\* what holds of the settings: the filters (without their groupBy key) and
\* the zoom of the stored board are the ones chosen last
FiltersAndZoomStored ==
    (boardsLoaded /\ IsDefined(currentBoardId) /\ IsDefined(CurrentBoard)) =>
        /\ CurrentBoard[1].filters.states = filters.states
        /\ CurrentBoard[1].zoom = zoom

----------------------------------------------------------------------------
(* Properties of the queries *)

\* the activation of loadWorkItems that started last
LatestLoad == pending[Len(pending)]

\* C27: when all queries have settled, the work items and the rows on
\* display are the result of the query that started last, which is the one
\* made from the latest filters and group-by: no earlier query that settles
\* later puts its result over it.
C27_LatestQueryWins ==
    (Len(pending) >= 1 /\ InFlight = {} /\ ~LatestLoad.threw) =>
        /\ LatestLoad.filters = filters
        /\ LatestLoad.groupBy = groupBy
        /\ workItems = LatestLoad.result[1]
        /\ ganttItems = RowsOf(LatestLoad.result[1], LatestLoad.groupBy)

\* what holds of the display: it shows the result of one of the queries
DisplayFromSomeLoad ==
    (Len(pending) >= 1 /\ InFlight = {} /\ ~LatestLoad.threw) =>
        \E i \in 1..Len(pending) :
            /\ ~pending[i].threw
            /\ workItems = pending[i].result[1]
            /\ ganttItems = RowsOf(pending[i].result[1], pending[i].groupBy)

\* C28: a queryWorkItems call that was in flight when cancelPendingRequests
\* was called resolves to the empty list and does not throw, however many
\* calls were in flight.
C28_CancelledCallsAreEmpty ==
    \A i \in 1..Len(pending) :
        (pending[i].pc = "done" /\ pending[i].cancelled) =>
            /\ ~pending[i].threw
            /\ pending[i].result = Some(<< >>)

\* the weaker statement about calls whose requests did not fail, which the
\* code does not meet either
CancelledCallsThatReturnAreEmpty ==
    \A i \in 1..Len(pending) :
        (pending[i].pc = "done" /\ pending[i].cancelled /\ ~pending[i].threw) =>
            pending[i].result = Some(<< >>)

\* the same for the call that held the AbortController field at the cancel
\* and still waited for its WIQL query
CancelledLatestIsEmpty ==
    \A i \in 1..Len(pending) :
        (/\ pending[i].pc = "done" /\ pending[i].id \in aborted
         /\ pending[i].found = << >> /\ ~pending[i].threw) =>
            pending[i].result = Some(<< >>)


============================================================================
